---- MODULE Spec2Model ----
(***************************************************************************)
(* bingosync: the game engine (internal/game), the room aggregate and the  *)
(* room registry (internal/room) and the websocket handler                  *)
(* (internal/websocket/handler.go), as a state machine.                     *)
(***************************************************************************)
EXTENDS Integers, Sequences, FiniteSets, TLC

(***************************************************************************)
(* Bounds of the model.                                                     *)
(***************************************************************************)
\* Columns 0..MaxCol are the columns an engine call may address.
MaxCol == 0
\* In SpecSettle, calls address columns 0..MaxCol of every row and columns
\* 0..MaxSettleCol of the last row.
MaxSettleCol == 1
\* In SpecPlay, requests address rows 0..MaxPlayRow and columns 0..MaxPlayCol.
MaxPlayRow == 1
MaxPlayCol == 1
\* Connections (one user identity each) are 1..MaxUsers.
MaxUsers == 3
\* Room ids handed out by generateRoomID are 1..MaxRooms.
MaxRooms == 2
\* In the specifications that interleave handlers, connections 1..MaxRacers take part.
MaxRacers == 2

(***************************************************************************)
(* Program constants.                                                       *)
(***************************************************************************)
LastRow == 4
NoBingoLine == -1
SettleMarks == 2
BoardCells == 25
DiagDown == 5
DiagUp == 6

Rows == 0..LastRow
Cols == 0..LastRow
Cells == Rows \X Cols
Colors == {"red", "blue"}

(***************************************************************************)
(* internal/game/types.go                                                   *)
(***************************************************************************)
EmptyCell == [markedBy |-> "none", secondMark |-> "none", times |-> 0]

NewBoard == [c \in Cells |-> EmptyCell]

NilWinner == [winner |-> "none", reason |-> "nil", redScore |-> 0, blueScore |-> 0]

DefaultPhaseConfig ==
    [rowScores        |-> <<2, 2, 4, 4, 6>>,
     secondHalfScores |-> <<1, 1, 2, 2, 3>>,
     cellsPerRow      |-> 3,
     unlockThreshold  |-> 2,
     bingoBonus       |-> 3,
     finalBonus       |-> 3]

ZeroRowMarks == [r \in Rows |-> 0]

(***************************************************************************)
(* internal/game/game.go                                                    *)
(***************************************************************************)
\* Cell.Text of every cell of a new board.
NoTexts == [c \in Cells |-> ""]

NewGame(rule) ==
    [board           |-> NewBoard,
     rule            |-> rule,
     phaseConfig     |-> DefaultPhaseConfig,
     status          |-> "waiting",
     winner          |-> NilWinner,
     redRowMarks     |-> ZeroRowMarks,
     blueRowMarks    |-> ZeroRowMarks,
     redUnlockedRow  |-> 0,
     blueUnlockedRow |-> 0,
     bingoAchiever   |-> "none",
     bingoLine       |-> NoBingoLine,
     redSettled      |-> FALSE,
     blueSettled     |-> FALSE,
     firstSettler    |-> "none",
     texts           |-> NoTexts]

Ok(g) == [g |-> g, err |-> "ok"]
Fail(g, e) == [g |-> g, err |-> e]

Start(g) ==
    IF g.status = "playing" THEN Fail(g, "GameInProgress")
    ELSE Ok([g EXCEPT !.status = "playing"])

ValidPos(row, col) == ~(row < 0 \/ row > LastRow \/ col < 0 \/ col > LastRow)

Holds(cell, player) == cell.markedBy = player \/ cell.secondMark = player

\* The five cells of a line from (startRow, startCol) in direction (dRow, dCol).
Line(startRow, startCol, dRow, dCol) ==
    [i \in 0..LastRow |-> <<startRow + i * dRow, startCol + i * dCol>>]

CountMarks(g) ==
    [red  |-> Cardinality({c \in Cells : Holds(g.board[c], "red")}),
     blue |-> Cardinality({c \in Cells : Holds(g.board[c], "blue")})]

checkLineWin(g, startRow, startCol, dRow, dCol) ==
    LET line  == Line(startRow, startCol, dRow, dCol)
        first == g.board[line[0]].markedBy
    IN  IF first = "none" THEN "none"
        ELSE IF \E i \in 1..LastRow : g.board[line[i]].markedBy # first THEN "none"
        ELSE first

newBingoWinner(g, winner) ==
    [winner |-> winner, reason |-> "bingo",
     redScore |-> CountMarks(g).red, blueScore |-> CountMarks(g).blue]

\* A variant of checkFullBoard that names the color holding fewer cells.
checkFullBoardFewer(g) ==
    LET n == CountMarks(g)
    IN  IF n.red + n.blue < BoardCells THEN NilWinner
        ELSE [winner    |-> IF n.red < n.blue THEN "red"
                            ELSE IF n.blue < n.red THEN "blue" ELSE "none",
              reason    |-> "full_board",
              redScore  |-> n.red,
              blueScore |-> n.blue]

checkFullBoard(g) ==
    LET n == CountMarks(g)
    IN  IF n.red + n.blue < BoardCells THEN NilWinner
        ELSE [winner    |-> IF n.red > n.blue THEN "red"
                            ELSE IF n.blue > n.red THEN "blue" ELSE "none",
              reason    |-> "full_board",
              redScore  |-> n.red,
              blueScore |-> n.blue]

\* The 12 lines in the order checkNormalWin scans them: rows, columns, diagonals.
NormalLines ==
    [i \in 0..11 |->
        IF i <= LastRow THEN <<i, 0, 0, 1>>
        ELSE IF i <= 2 * LastRow + 1 THEN <<0, i - LastRow - 1, 1, 0>>
        ELSE IF i = 2 * LastRow + 2 THEN <<0, 0, 1, 1>>
        ELSE <<0, LastRow, 1, -1>>]

NormalLineWin(g, i) ==
    checkLineWin(g, NormalLines[i][1], NormalLines[i][2], NormalLines[i][3], NormalLines[i][4])

checkNormalWin(g) ==
    LET won == {i \in 0..11 : NormalLineWin(g, i) # "none"}
    IN  IF won # {}
        THEN newBingoWinner(g, NormalLineWin(g, CHOOSE j \in won : \A k \in won : j <= k))
        ELSE checkFullBoard(g)

\* A variant of checkBlackoutWin that counts first marks only.
checkBlackoutWinFirstMarks(g) ==
    LET nr == Cardinality({c \in Cells : g.board[c].markedBy = "red"})
        nb == Cardinality({c \in Cells : g.board[c].markedBy = "blue"})
    IN  IF nr = BoardCells
        THEN [winner |-> "red", reason |-> "blackout", redScore |-> nr, blueScore |-> nb]
        ELSE IF nb = BoardCells
        THEN [winner |-> "blue", reason |-> "blackout", redScore |-> nr, blueScore |-> nb]
        ELSE NilWinner

checkBlackoutWin(g) ==
    LET n == CountMarks(g)
    IN  IF n.red = BoardCells
        THEN [winner |-> "red", reason |-> "blackout", redScore |-> n.red, blueScore |-> n.blue]
        ELSE IF n.blue = BoardCells
        THEN [winner |-> "blue", reason |-> "blackout", redScore |-> n.red, blueScore |-> n.blue]
        ELSE NilWinner

\* A variant of CheckWin that never takes a finished game back to playing.
CheckWinStaysFinished(g) ==
    IF g.rule = "phase" THEN g
    ELSE LET winner == IF g.rule = "normal" THEN checkNormalWin(g) ELSE checkBlackoutWin(g)
         IN  IF winner # NilWinner
             THEN [g EXCEPT !.status = "finished", !.winner = winner]
             ELSE [g EXCEPT !.winner = NilWinner]

CheckWin(g) ==
    IF g.rule = "phase" THEN g
    ELSE LET winner == IF g.rule = "normal" THEN checkNormalWin(g) ELSE checkBlackoutWin(g)
         IN  IF winner # NilWinner
             THEN [g EXCEPT !.status = "finished", !.winner = winner]
             ELSE [g EXCEPT !.status = IF @ = "finished" THEN "playing" ELSE @,
                            !.winner = NilWinner]

\* A variant of markNormal without the test for an earlier mark.
markNormalOverwrite(g, row, col, player) ==
    Ok([g EXCEPT !.board[<<row, col>>].markedBy = player])

markNormal(g, row, col, player) ==
    IF g.board[<<row, col>>].markedBy # "none" THEN Fail(g, "AlreadyMarked")
    ELSE Ok([g EXCEPT !.board[<<row, col>>].markedBy = player])

markBlackout(g, row, col, player) ==
    LET cell == g.board[<<row, col>>]
    IN  IF cell.markedBy = player THEN Fail(g, "PlayerAlreadyMarked")
        ELSE IF cell.secondMark = player THEN Fail(g, "PlayerAlreadyMarked")
        ELSE IF cell.markedBy = "none"
        THEN Ok([g EXCEPT !.board[<<row, col>>].markedBy = player,
                          !.board[<<row, col>>].times = 1])
        ELSE IF cell.secondMark = "none"
        THEN Ok([g EXCEPT !.board[<<row, col>>].secondMark = player,
                          !.board[<<row, col>>].times = 2])
        ELSE Fail(g, "AlreadyMarked")

\* The vertical and diagonal lines of the phase rule, by line index.
PhaseLine(lineIndex) ==
    IF lineIndex <= LastRow THEN Line(0, lineIndex, 1, 0)
    ELSE IF lineIndex = DiagDown THEN Line(0, 0, 1, 1)
    ELSE Line(0, LastRow, 1, -1)

\* The color checkPhaseLineBingo would record for a line, red before blue.
PhaseLineHolder(g, lineIndex) ==
    LET line == PhaseLine(lineIndex)
    IN  IF \A i \in 0..LastRow : Holds(g.board[line[i]], "red") THEN "red"
        ELSE IF \A i \in 0..LastRow : Holds(g.board[line[i]], "blue") THEN "blue"
        ELSE "none"

checkPhaseLineBingo(g, lineIndex) ==
    IF g.bingoAchiever = "none" /\ PhaseLineHolder(g, lineIndex) # "none"
    THEN [g EXCEPT !.bingoAchiever = PhaseLineHolder(g, lineIndex), !.bingoLine = lineIndex]
    ELSE g

checkPhaseBingo(g) ==
    LET found == {l \in 0..DiagUp : checkPhaseLineBingo(g, l) # g}
    IN  IF found = {} THEN g
        ELSE checkPhaseLineBingo(g, CHOOSE l \in found : \A k \in found : l <= k)

\* Every player value other than red selects blue's counters (the else branch).
RowMarksOf(g, player) == IF player = "red" THEN g.redRowMarks ELSE g.blueRowMarks
UnlockedRowOf(g, player) == IF player = "red" THEN g.redUnlockedRow ELSE g.blueUnlockedRow

SetRowMarks(g, player, row, n) ==
    IF player = "red" THEN [g EXCEPT !.redRowMarks[row] = n]
    ELSE [g EXCEPT !.blueRowMarks[row] = n]

SetUnlockedRow(g, player, n) ==
    IF player = "red" THEN [g EXCEPT !.redUnlockedRow = n]
    ELSE [g EXCEPT !.blueUnlockedRow = n]

\* A variant of markPhase that counts the mark in rowMarks before it validates it.
markPhaseCountFirst(g, row, col, player) ==
    LET g1 == SetRowMarks(g, player, row, RowMarksOf(g, player)[row] + 1)
    IN  IF row > UnlockedRowOf(g, player) THEN Fail(g1, "RowLocked")
        ELSE IF RowMarksOf(g, player)[row] >= g.phaseConfig.cellsPerRow
        THEN Fail(g1, "RowLimitExceeded")
        ELSE IF Holds(g.board[<<row, col>>], player) THEN Fail(g1, "PlayerAlreadyMarked")
        ELSE Ok([g1 EXCEPT !.board[<<row, col>>].markedBy = player])

\* A variant of markPhase that writes its mark onto a board read before the lock was
\* taken (here: the empty board), losing the marks made since.
markPhaseStaleBoard(g, row, col, player) ==
    IF row > UnlockedRowOf(g, player) THEN Fail(g, "RowLocked")
    ELSE IF RowMarksOf(g, player)[row] >= g.phaseConfig.cellsPerRow
    THEN Fail(g, "RowLimitExceeded")
    ELSE IF Holds(g.board[<<row, col>>], player) THEN Fail(g, "PlayerAlreadyMarked")
    ELSE Ok([SetRowMarks(g, player, row, RowMarksOf(g, player)[row] + 1)
                EXCEPT !.board = [NewBoard EXCEPT ![<<row, col>>].markedBy = player]])

markPhase(g, row, col, player) ==
    LET cell == g.board[<<row, col>>]
    IN  IF row > UnlockedRowOf(g, player) THEN Fail(g, "RowLocked")
        ELSE IF RowMarksOf(g, player)[row] >= g.phaseConfig.cellsPerRow
        THEN Fail(g, "RowLimitExceeded")
        ELSE IF cell.markedBy = player \/ cell.secondMark = player
        THEN Fail(g, "PlayerAlreadyMarked")
        ELSE
          LET g1 == IF cell.markedBy = "none"
                    THEN [g EXCEPT !.board[<<row, col>>].markedBy = player]
                    ELSE IF cell.secondMark = "none"
                    THEN [g EXCEPT !.board[<<row, col>>].secondMark = player,
                                   !.board[<<row, col>>].times = 1]
                    ELSE g
              n  == RowMarksOf(g, player)[row] + 1
              g2 == SetRowMarks(g1, player, row, n)
              u  == UnlockedRowOf(g, player)
              g3 == IF row = u /\ u < LastRow /\ n >= g.phaseConfig.unlockThreshold
                    THEN SetUnlockedRow(g2, player, u + 1)
                    ELSE g2
          IN  Ok(IF g3.bingoAchiever = "none" THEN checkPhaseBingo(g3) ELSE g3)

MarkCell(g, row, col, player) ==
    IF g.status = "waiting" THEN Fail(g, "NotStarted")
    ELSE IF g.status = "finished" THEN Fail(g, "AlreadyFinished")
    ELSE IF ~ValidPos(row, col) THEN Fail(g, "InvalidPosition")
    ELSE LET r == IF g.rule = "normal" THEN markNormal(g, row, col, player)
                  ELSE IF g.rule = "blackout" THEN markBlackout(g, row, col, player)
                  ELSE markPhase(g, row, col, player)
         IN  IF r.err # "ok" THEN r
             ELSE Ok(IF g.rule # "phase" THEN CheckWin(r.g) ELSE r.g)

MarkCellForce(g, row, col, player) ==
    IF g.status = "waiting" THEN Fail(g, "NotStarted")
    ELSE IF ~ValidPos(row, col) THEN Fail(g, "InvalidPosition")
    ELSE LET g1 == [g EXCEPT !.board[<<row, col>>] =
                        [markedBy |-> player, secondMark |-> "none", times |-> 0]]
         IN  Ok(IF g.rule # "phase" THEN CheckWin(g1) ELSE g1)

\* A variant of CanSettle that is content with one mark in the last row.
CanSettleOneMark(g, player) == RowMarksOf(g, player)[LastRow] >= 1

CanSettle(g, player) == RowMarksOf(g, player)[LastRow] >= SettleMarks

\* Sum of a row-indexed score table over a set of cells.
RECURSIVE SumRows(_, _)
SumRows(cells, scores) ==
    IF cells = {} THEN 0
    ELSE LET c == CHOOSE x \in cells : TRUE
         IN  scores[c[1] + 1] + SumRows(cells \ {c}, scores)

\* A variant of CalculatePhaseScore that pays secondary claims the primary score.
CalculatePhaseScoreFlat(g) ==
    LET score(p) ==
            SumRows({c \in Cells : Holds(g.board[c], p)}, g.phaseConfig.rowScores)
            + (IF g.bingoAchiever = p THEN g.phaseConfig.bingoBonus ELSE 0)
            + (IF g.firstSettler = p THEN g.phaseConfig.finalBonus ELSE 0)
    IN  [red |-> score("red"), blue |-> score("blue")]

CalculatePhaseScore(g) ==
    LET score(p) ==
            SumRows({c \in Cells : g.board[c].markedBy = p}, g.phaseConfig.rowScores)
            + SumRows({c \in Cells : g.board[c].secondMark = p}, g.phaseConfig.secondHalfScores)
            + (IF g.bingoAchiever = p THEN g.phaseConfig.bingoBonus ELSE 0)
            + (IF g.firstSettler = p THEN g.phaseConfig.finalBonus ELSE 0)
    IN  [red |-> score("red"), blue |-> score("blue")]

checkPhaseWin(g) ==
    LET s == CalculatePhaseScore(g)
    IN  [g EXCEPT !.winner = [winner    |-> IF s.red > s.blue THEN "red"
                                            ELSE IF s.blue > s.red THEN "blue"
                                            ELSE g.firstSettler,
                              reason    |-> "phase",
                              redScore  |-> s.red,
                              blueScore |-> s.blue],
                  !.status = "finished"]

\* A variant of Settle that ends the game at the first settlement.
SettleEndsAtFirst(g, player) ==
    IF g.status # "playing" THEN Fail(g, "NotStarted")
    ELSE IF player = "red" /\ g.redSettled THEN Fail(g, "AlreadySettled")
    ELSE IF player = "blue" /\ g.blueSettled THEN Fail(g, "AlreadySettled")
    ELSE IF g.firstSettler = "none" /\ ~CanSettle(g, player) THEN Fail(g, "CannotSettleYet")
    ELSE LET g1 == IF g.firstSettler = "none" THEN [g EXCEPT !.firstSettler = player] ELSE g
             g2 == IF player = "red" THEN [g1 EXCEPT !.redSettled = TRUE]
                   ELSE [g1 EXCEPT !.blueSettled = TRUE]
         IN  Ok(checkPhaseWin(g2))

\* A variant of Settle that asks CanSettle of every settler, not only of the first.
SettleAlwaysChecks(g, player) ==
    IF g.status # "playing" THEN Fail(g, "NotStarted")
    ELSE IF player = "red" /\ g.redSettled THEN Fail(g, "AlreadySettled")
    ELSE IF player = "blue" /\ g.blueSettled THEN Fail(g, "AlreadySettled")
    ELSE IF ~CanSettle(g, player) THEN Fail(g, "CannotSettleYet")
    ELSE LET g1 == IF g.firstSettler = "none" THEN [g EXCEPT !.firstSettler = player] ELSE g
             g2 == IF player = "red" THEN [g1 EXCEPT !.redSettled = TRUE]
                   ELSE [g1 EXCEPT !.blueSettled = TRUE]
         IN  Ok(IF g2.redSettled /\ g2.blueSettled THEN checkPhaseWin(g2) ELSE g2)

Settle(g, player) ==
    IF g.status # "playing" THEN Fail(g, "NotStarted")
    ELSE IF player = "red" /\ g.redSettled THEN Fail(g, "AlreadySettled")
    ELSE IF player = "blue" /\ g.blueSettled THEN Fail(g, "AlreadySettled")
    ELSE IF g.firstSettler = "none" /\ ~CanSettle(g, player) THEN Fail(g, "CannotSettleYet")
    ELSE LET g1 == IF g.firstSettler = "none" THEN [g EXCEPT !.firstSettler = player] ELSE g
             g2 == IF player = "red" THEN [g1 EXCEPT !.redSettled = TRUE]
                   ELSE [g1 EXCEPT !.blueSettled = TRUE]
         IN  Ok(IF g2.redSettled /\ g2.blueSettled THEN checkPhaseWin(g2) ELSE g2)

Reset(g) ==
    [g EXCEPT !.board = NewBoard, !.status = "waiting", !.winner = NilWinner,
              !.redRowMarks = ZeroRowMarks, !.blueRowMarks = ZeroRowMarks,
              !.redUnlockedRow = 0, !.blueUnlockedRow = 0,
              !.bingoAchiever = "none", !.bingoLine = NoBingoLine,
              !.redSettled = FALSE, !.blueSettled = FALSE, !.firstSettler = "none",
              !.texts = NoTexts]

\* The loop of recheckPhaseRowUnlock: step back while the previous row is under the threshold.
RECURSIVE Rollback(_, _, _)
Rollback(unlockedRow, rowMarks, threshold) ==
    IF unlockedRow > 0 /\ ~(rowMarks[unlockedRow - 1] >= threshold)
    THEN Rollback(unlockedRow - 1, rowMarks, threshold)
    ELSE unlockedRow

recheckPhaseRowUnlock(g, player) ==
    SetUnlockedRow(g, player,
        Rollback(UnlockedRowOf(g, player), RowMarksOf(g, player), g.phaseConfig.unlockThreshold))

isBingoLineValid(g, lineIndex, achiever) ==
    IF lineIndex >= 0 /\ lineIndex <= DiagUp
    THEN \A i \in 0..LastRow :
            ~(g.board[PhaseLine(lineIndex)[i]].markedBy # achiever
              /\ g.board[PhaseLine(lineIndex)[i]].secondMark # achiever)
    ELSE FALSE

\* A variant of recheckPhaseBingo that drops a broken Bingo without looking for another.
recheckPhaseBingoNoRescan(g) ==
    IF g.bingoAchiever = "none" THEN g
    ELSE IF isBingoLineValid(g, g.bingoLine, g.bingoAchiever) THEN g
    ELSE [g EXCEPT !.bingoAchiever = "none", !.bingoLine = NoBingoLine]

recheckPhaseBingo(g) ==
    IF g.bingoAchiever = "none" THEN g
    ELSE IF isBingoLineValid(g, g.bingoLine, g.bingoAchiever) THEN g
    ELSE checkPhaseBingo([g EXCEPT !.bingoAchiever = "none", !.bingoLine = NoBingoLine])

\* The phase branch of UnmarkCell: counters, unlock rollback and the Bingo recheck,
\* all of which run before the cell itself is cleared.
UnmarkPhaseTracking(g, row, col) ==
    LET cell == g.board[<<row, col>>]
        red1  == cell.markedBy = "red" /\ g.redRowMarks[row] > 0
        blue1 == ~red1 /\ cell.markedBy = "blue" /\ g.blueRowMarks[row] > 0
        g1    == IF red1 THEN [g EXCEPT !.redRowMarks[row] = @ - 1]
                 ELSE IF blue1 THEN [g EXCEPT !.blueRowMarks[row] = @ - 1]
                 ELSE g
        red2  == cell.secondMark = "red" /\ g1.redRowMarks[row] > 0
        blue2 == ~red2 /\ cell.secondMark = "blue" /\ g1.blueRowMarks[row] > 0
        g2    == IF red2 THEN [g1 EXCEPT !.redRowMarks[row] = @ - 1]
                 ELSE IF blue2 THEN [g1 EXCEPT !.blueRowMarks[row] = @ - 1]
                 ELSE g1
        g3    == IF red1 \/ red2 THEN recheckPhaseRowUnlock(g2, "red") ELSE g2
        g4    == IF blue1 \/ blue2 THEN recheckPhaseRowUnlock(g3, "blue") ELSE g3
    IN  recheckPhaseBingo(g4)

UnmarkCell(g, row, col) ==
    IF g.status = "waiting" THEN Fail(g, "NotStarted")
    ELSE IF ~ValidPos(row, col) THEN Fail(g, "InvalidPosition")
    ELSE LET g1 == IF g.rule = "phase" THEN UnmarkPhaseTracking(g, row, col) ELSE g
             g2 == [g1 EXCEPT !.board[<<row, col>>] =
                        [markedBy |-> "none", secondMark |-> "none", times |-> 0]]
         IN  Ok(IF g.rule # "phase" THEN CheckWin(g2) ELSE g2)

SetCellText(g, row, col, text) ==
    IF ~ValidPos(row, col) THEN Fail(g, "InvalidPosition")
    ELSE Ok([g EXCEPT !.texts[<<row, col>>] = text])

\* texts is the slice of the payload, read at index row*5+col (from 0).
SetAllCellTexts(g, texts) ==
    IF Len(texts) # BoardCells THEN Fail(g, "Not25Texts")
    ELSE Ok([g EXCEPT !.texts = [c \in Cells |-> texts[c[1] * (LastRow + 1) + c[2] + 1]]])

\* A variant of ClearPhaseTracking that counts every color other than red as blue.
ClearPhaseTrackingElseBlue(g, row, player) ==
    LET g1 == IF player = "red" /\ g.redRowMarks[row] > 0
              THEN [g EXCEPT !.redRowMarks[row] = @ - 1]
              ELSE IF player # "red" /\ g.blueRowMarks[row] > 0
              THEN [g EXCEPT !.blueRowMarks[row] = @ - 1]
              ELSE g
    IN  recheckPhaseBingo(recheckPhaseRowUnlock(g1, player))

\* The phase branch of ClearCellMark, run after the cell has been changed.
ClearPhaseTracking(g, row, player) ==
    LET g1 == IF player = "red" /\ g.redRowMarks[row] > 0
              THEN [g EXCEPT !.redRowMarks[row] = @ - 1]
              ELSE IF player = "blue" /\ g.blueRowMarks[row] > 0
              THEN [g EXCEPT !.blueRowMarks[row] = @ - 1]
              ELSE g
    IN  recheckPhaseBingo(recheckPhaseRowUnlock(g1, player))

\* A variant of ClearCellMark that counts Times down whether or not a mark was cleared.
ClearCellMarkCountsDown(g, row, col, player) ==
    IF g.status = "waiting" THEN Fail(g, "NotStarted")
    ELSE IF ~ValidPos(row, col) THEN Fail(g, "InvalidPosition")
    ELSE LET cell    == g.board[<<row, col>>]
             dec(t)  == IF t > 0 THEN t - 1 ELSE t
             cleared == cell.markedBy = player \/ cell.secondMark = player
             g1 == IF cell.markedBy = player
                   THEN [g EXCEPT !.board[<<row, col>>] =
                            [markedBy |-> cell.secondMark, secondMark |-> "none",
                             times |-> dec(cell.times)]]
                   ELSE IF cell.secondMark = player
                   THEN [g EXCEPT !.board[<<row, col>>] =
                            [markedBy |-> cell.markedBy, secondMark |-> "none",
                             times |-> dec(cell.times)]]
                   ELSE [g EXCEPT !.board[<<row, col>>].times = dec(@)]
         IN  Ok(IF g.rule = "phase" /\ cleared THEN ClearPhaseTracking(g1, row, player) ELSE g1)

ClearCellMark(g, row, col, player) ==
    IF g.status = "waiting" THEN Fail(g, "NotStarted")
    ELSE IF ~ValidPos(row, col) THEN Fail(g, "InvalidPosition")
    ELSE LET cell    == g.board[<<row, col>>]
             dec(t)  == IF t > 0 THEN t - 1 ELSE t
             cleared == cell.markedBy = player \/ cell.secondMark = player
             g1 == IF cell.markedBy = player
                   THEN [g EXCEPT !.board[<<row, col>>] =
                            [markedBy |-> cell.secondMark, secondMark |-> "none",
                             times |-> dec(cell.times)]]
                   ELSE IF cell.secondMark = player
                   THEN [g EXCEPT !.board[<<row, col>>] =
                            [markedBy |-> cell.markedBy, secondMark |-> "none",
                             times |-> dec(cell.times)]]
                   ELSE g
         IN  Ok(IF g.rule = "phase" /\ cleared THEN ClearPhaseTracking(g1, row, player) ELSE g1)

(***************************************************************************)
(* internal/room/room.go: the room aggregate.  A Room operation is a        *)
(* function of the room object and the user objects it reaches (it runs     *)
(* under the room's lock) and yields the new room, the new user objects     *)
(* and its error.                                                           *)
(***************************************************************************)
NoUser == 0
NoRoom == 0

NewRoom(id, password, ownerID) ==
    [id        |-> id,
     password  |-> password,
     ownerID   |-> ownerID,
     game      |-> NewGame("normal"),
     users     |-> {},
     userOrder |-> <<>>]

ROk(rm, us) == [rm |-> rm, us |-> us, err |-> "ok"]
RFail(rm, us, e) == [rm |-> rm, us |-> us, err |-> e]

\* The result of a Game call made under the room's lock.
RGame(rm, us, res) == [rm |-> [rm EXCEPT !.game = res.g], us |-> us, err |-> res.err]

AddUser(rm, us, u) ==
    IF u \in rm.users THEN ROk(rm, us)
    ELSE LET first == rm.ownerID = NoUser
         IN  ROk([rm EXCEPT !.users = @ \cup {u},
                            !.userOrder = Append(@, u),
                            !.ownerID = IF first THEN u ELSE @],
                 [us EXCEPT ![u] = [roomID |-> rm.id,
                                    role   |-> IF first THEN "referee" ELSE "spectator",
                                    color  |-> "none"]])

RemoveFromOrder(order, u) == SelectSeq(order, LAMBDA x : x # u)

\* A variant of RemoveUser that hands the room to the member who joined last.
RemoveUserToNewest(rm, us, u) ==
    IF u \notin rm.users THEN ROk(rm, us)
    ELSE LET order    == RemoveFromOrder(rm.userOrder, u)
             us1      == [us EXCEPT ![u] = [roomID |-> NoRoom, role |-> "spectator",
                                            color |-> "none"]]
             transfer == rm.ownerID = u /\ Len(order) > 0
             newOwner == IF transfer THEN order[Len(order)] ELSE rm.ownerID
         IN  ROk([rm EXCEPT !.users = @ \ {u}, !.userOrder = order, !.ownerID = newOwner],
                 IF transfer /\ newOwner \in (rm.users \ {u})
                 THEN [us1 EXCEPT ![newOwner].role = "referee"]
                 ELSE us1)

\* A variant of RemoveUser that resets the user but leaves it in the membership.
RemoveUserKeepsMember(rm, us, u) ==
    IF u \notin rm.users THEN ROk(rm, us)
    ELSE ROk(rm, [us EXCEPT ![u] = [roomID |-> NoRoom, role |-> "spectator", color |-> "none"]])

RemoveUser(rm, us, u) ==
    IF u \notin rm.users THEN ROk(rm, us)
    ELSE LET order    == RemoveFromOrder(rm.userOrder, u)
             us1      == [us EXCEPT ![u] = [roomID |-> NoRoom, role |-> "spectator",
                                            color |-> "none"]]
             transfer == rm.ownerID = u /\ Len(order) > 0
             newOwner == IF transfer THEN order[1] ELSE rm.ownerID
         IN  ROk([rm EXCEPT !.users = @ \ {u}, !.userOrder = order, !.ownerID = newOwner],
                 IF transfer /\ newOwner \in (rm.users \ {u})
                 THEN [us1 EXCEPT ![newOwner].role = "referee"]
                 ELSE us1)

\* A variant of SetUserRole without the loop that looks for the color among the other
\* members.
SetUserRoleNoColorCheck(rm, us, callerID, targetUserID, role, color) ==
    IF rm.ownerID # callerID /\ callerID # targetUserID THEN RFail(rm, us, "NotOwner")
    ELSE IF targetUserID \notin rm.users THEN RFail(rm, us, "UserNotFound")
    ELSE ROk(rm, [us EXCEPT ![targetUserID].role = role,
                            ![targetUserID].color = IF role = "player" THEN color ELSE "none"])

\* A variant of SetUserRole without the test of the caller.
SetUserRoleAnyCaller(rm, us, callerID, targetUserID, role, color) ==
    IF targetUserID \notin rm.users THEN RFail(rm, us, "UserNotFound")
    ELSE IF role = "player" /\ color # "none"
            /\ \E u \in rm.users : u # targetUserID /\ us[u].color = color
    THEN RFail(rm, us, "PlayerAlreadySet")
    ELSE ROk(rm, [us EXCEPT ![targetUserID].role = role,
                            ![targetUserID].color = IF role = "player" THEN color ELSE "none"])

SetUserRole(rm, us, callerID, targetUserID, role, color) ==
    IF rm.ownerID # callerID /\ callerID # targetUserID THEN RFail(rm, us, "NotOwner")
    ELSE IF targetUserID \notin rm.users THEN RFail(rm, us, "UserNotFound")
    ELSE IF role = "player" /\ color # "none"
            /\ \E u \in rm.users : u # targetUserID /\ us[u].color = color
    THEN RFail(rm, us, "PlayerAlreadySet")
    ELSE ROk(rm, [us EXCEPT ![targetUserID].role = role,
                            ![targetUserID].color = IF role = "player" THEN color ELSE "none"])

SetPassword(rm, us, callerID, password) ==
    IF rm.ownerID # callerID THEN RFail(rm, us, "NotOwner")
    ELSE ROk([rm EXCEPT !.password = password], us)

ValidatePassword(rm, password) ==
    IF rm.password = "" THEN TRUE ELSE rm.password = password

\* A variant of Room.SetGameRule without the refusal of a game in progress.
SetGameRuleWhilePlaying(rm, us, callerID, rule, config) ==
    IF rm.ownerID # callerID THEN RFail(rm, us, "NotOwner")
    ELSE ROk([rm EXCEPT !.game = [NewGame(rule) EXCEPT !.phaseConfig = config]], us)

SetGameRule(rm, us, callerID, rule, config) ==
    IF rm.ownerID # callerID THEN RFail(rm, us, "NotOwner")
    ELSE IF rm.game.status = "playing" THEN RFail(rm, us, "GameInProgress")
    ELSE ROk([rm EXCEPT !.game = [NewGame(rule) EXCEPT !.phaseConfig = config]], us)

StartGame(rm, us, callerID) ==
    IF rm.ownerID # callerID THEN RFail(rm, us, "NotOwner")
    ELSE RGame(rm, us, Start(rm.game))

\* A variant of Room.MarkCell whose referee branch takes MarkCellForce under every rule.
RoomMarkCellRefereeForces(rm, us, userID, row, col, playerColor) ==
    IF userID \notin rm.users THEN RFail(rm, us, "UserNotFound")
    ELSE IF us[userID].role = "referee"
    THEN RGame(rm, us, MarkCellForce(rm.game, row, col, playerColor))
    ELSE IF us[userID].role = "player" /\ playerColor # us[userID].color
    THEN RFail(rm, us, "NotYourColor")
    ELSE IF us[userID].role = "spectator" THEN RFail(rm, us, "Spectator")
    ELSE RGame(rm, us, MarkCell(rm.game, row, col, playerColor))

\* A variant of Room.MarkCell in which a player marking its own color takes MarkCellForce.
RoomMarkCellPlayerForces(rm, us, userID, row, col, playerColor) ==
    IF userID \notin rm.users THEN RFail(rm, us, "UserNotFound")
    ELSE IF us[userID].role = "referee"
    THEN IF rm.game.rule = "blackout" \/ rm.game.rule = "phase"
         THEN RGame(rm, us, MarkCell(rm.game, row, col, playerColor))
         ELSE RGame(rm, us, MarkCellForce(rm.game, row, col, playerColor))
    ELSE IF us[userID].role = "player" /\ playerColor # us[userID].color
    THEN RFail(rm, us, "NotYourColor")
    ELSE IF us[userID].role = "spectator" THEN RFail(rm, us, "Spectator")
    ELSE RGame(rm, us, MarkCellForce(rm.game, row, col, playerColor))

RoomMarkCell(rm, us, userID, row, col, playerColor) ==
    IF userID \notin rm.users THEN RFail(rm, us, "UserNotFound")
    ELSE IF us[userID].role = "referee"
    THEN IF rm.game.rule = "blackout" \/ rm.game.rule = "phase"
         THEN RGame(rm, us, MarkCell(rm.game, row, col, playerColor))
         ELSE RGame(rm, us, MarkCellForce(rm.game, row, col, playerColor))
    ELSE IF us[userID].role = "player" /\ playerColor # us[userID].color
    THEN RFail(rm, us, "NotYourColor")
    ELSE IF us[userID].role = "spectator" THEN RFail(rm, us, "Spectator")
    ELSE RGame(rm, us, MarkCell(rm.game, row, col, playerColor))

RoomUnmarkCell(rm, us, userID, row, col) ==
    IF userID \notin rm.users THEN RFail(rm, us, "UserNotFound")
    ELSE IF us[userID].role # "referee" THEN RFail(rm, us, "NotReferee")
    ELSE RGame(rm, us, UnmarkCell(rm.game, row, col))

\* A variant of Room.ClearCellMark without the refusal of spectators.
RoomClearCellMarkBySpectator(rm, us, userID, row, col, playerColor) ==
    IF userID \notin rm.users THEN RFail(rm, us, "UserNotFound")
    ELSE IF us[userID].role = "player" /\ playerColor # us[userID].color
    THEN RFail(rm, us, "NotYourColor")
    ELSE RGame(rm, us, ClearCellMark(rm.game, row, col, playerColor))

RoomClearCellMark(rm, us, userID, row, col, playerColor) ==
    IF userID \notin rm.users THEN RFail(rm, us, "UserNotFound")
    ELSE IF us[userID].role = "spectator" THEN RFail(rm, us, "Spectator")
    ELSE IF us[userID].role = "player" /\ playerColor # us[userID].color
    THEN RFail(rm, us, "NotYourColor")
    ELSE RGame(rm, us, ClearCellMark(rm.game, row, col, playerColor))

\* A variant of Room.ResetGame that does not look at the caller.
ResetGameAnyCaller(rm, us, callerID) ==
    ROk([rm EXCEPT !.game = Reset(rm.game)], us)

ResetGame(rm, us, callerID) ==
    IF rm.ownerID # callerID THEN RFail(rm, us, "NotOwner")
    ELSE ROk([rm EXCEPT !.game = Reset(rm.game)], us)

RoomSetCellText(rm, us, callerID, row, col, text) ==
    IF rm.ownerID # callerID THEN RFail(rm, us, "NotOwner")
    ELSE IF rm.game.status # "waiting" THEN RFail(rm, us, "NotWaiting")
    ELSE RGame(rm, us, SetCellText(rm.game, row, col, text))

RoomSetAllCellTexts(rm, us, callerID, texts) ==
    IF rm.ownerID # callerID THEN RFail(rm, us, "NotOwner")
    ELSE IF rm.game.status # "waiting" THEN RFail(rm, us, "NotWaiting")
    ELSE RGame(rm, us, SetAllCellTexts(rm.game, texts))

RoomSettle(rm, us, callerID, playerColor) ==
    IF callerID \notin rm.users THEN RFail(rm, us, "UserNotFound")
    ELSE IF us[callerID].role = "player" /\ us[callerID].color # playerColor
    THEN RFail(rm, us, "NotYourColor")
    ELSE IF us[callerID].role = "spectator" THEN RFail(rm, us, "Spectator")
    ELSE RGame(rm, us, Settle(rm.game, playerColor))

\* GetState: what is copied under the read lock; the Game is handed out by reference.
UserInfos(rm, us) == {[id |-> u, role |-> us[u].role, color |-> us[u].color] : u \in rm.users}

GetState(rm, us) ==
    [id |-> rm.id, ownerID |-> rm.ownerID, hasPassword |-> rm.password # "",
     users |-> UserInfos(rm, us)]

(***************************************************************************)
(* The server state: internal/room Manager, the user objects, and one      *)
(* handler task per connection (internal/websocket/handler.go).            *)
(***************************************************************************)
VARIABLES
    rooms,      \* the Room objects, by id (an object outlives its registry entry)
    registry,   \* Manager.rooms: the ids that GetRoom finds
    users,      \* the User objects: roomID, role, color
    conn,       \* per connection: the handler's position and its locals
    sent,       \* per connection: the messages its current handler has written
    hist        \* per connection in a broadcast: the states its room went through since GetState

vars == <<rooms, registry, users, conn, sent, hist>>

Users == 1..MaxUsers
RoomIds == 1..MaxRooms

NewUser == [roomID |-> NoRoom, role |-> "spectator", color |-> "none"]

NoRoomObject == NewRoom(NoRoom, "", NoUser)

NoReq ==
    [type |-> "none", row |-> 0, col |-> 0, color |-> "none", target |-> NoUser,
     role |-> "spectator", room |-> NoRoom, password |-> "", rule |-> "normal",
     config |-> DefaultPhaseConfig]

NoState == [id |-> NoRoom, ownerID |-> NoUser, hasPassword |-> FALSE, users |-> {}]

\* A handler's locals: r and old are the *Room pointers it holds, state is the RoomState
\* returned by GetState; its Game pointer is either the room's current Game (live) or a
\* Game object that SetGameRule has since replaced (held); infos is the list ListRooms
\* is building.
FreshConn(pc) ==
    [pc |-> pc, req |-> NoReq, r |-> NoRoom, old |-> NoRoom, err |-> "ok",
     state |-> NoState, live |-> TRUE, held |-> NewGame("normal"), cells |-> NewBoard,
     infos |-> {}]

Connected == {u \in Users : conn[u].pc \notin {"offline", "closed"}}

Msg(to, type, cur) == [to |-> to, type |-> type, cur |-> cur]

\* The room's state at one instant: what a consistent snapshot must equal.
RoomView(rm, us) == [state |-> GetState(rm, us), game |-> rm.game]

InBroadcast(cn) == cn.pc = "b_send"

\* Bookkeeping for hist, conjoined to every step: from the step that took the RoomState
\* on, the states of the room that agree with what the handler has read so far.
HistNext ==
    hist' = [c \in Users |->
                IF InBroadcast(conn'[c])
                THEN LET v == RoomView(rooms'[conn'[c].r], users')
                     IN  (IF InBroadcast(conn[c]) THEN hist[c] ELSE {})
                         \cup (IF v.state = conn'[c].state /\ v.game.board = conn'[c].cells
                               THEN {v} ELSE {})
                ELSE {}]

Init ==
    /\ rooms = [i \in RoomIds |-> NoRoomObject]
    /\ registry = {}
    /\ users = [u \in Users |-> NewUser]
    /\ conn = [u \in Users |-> FreshConn("offline")]
    /\ sent = [u \in Users |-> {}]
    /\ hist = [u \in Users |-> {}]

OnOpen(c) ==
    /\ conn[c].pc = "offline"
    /\ conn' = [conn EXCEPT ![c] = FreshConn("idle")]
    /\ users' = [users EXCEPT ![c] = NewUser]
    /\ sent' = [sent EXCEPT ![c] = {Msg(c, "connected", NoUser)}]
    /\ UNCHANGED <<rooms, registry>>
    /\ HistNext

\* Manager.GetRoom
GetRoom(id) == IF id \in registry THEN id ELSE NoRoom

Created == {i \in RoomIds : rooms[i].id # NoRoom}

\* Handlers that will still call CreateRoom.
PendingCreates == {u \in Users : conn[u].pc \in {"cr_remove", "cr_create"}}

Busy == {u \in Users : conn[u].pc \notin {"offline", "closed", "idle"}}

\* A handler ends: its result and what it wrote stay visible until the task returns.
Finish(cn, err) == [cn EXCEPT !.pc = "done", !.err = err]

\* OnMessage up to the first call that takes a room's lock.
Dispatch(c, req) ==
    /\ conn[c].pc = "idle"
    /\ LET cn  == [conn[c] EXCEPT !.req = req]
           cur == GetRoom(users[c].roomID)
       IN
       IF req.type = "create_room"
       THEN /\ Cardinality(Created) + Cardinality(PendingCreates) < MaxRooms
            /\ conn' = [conn EXCEPT ![c] =
                  IF cur # NoRoom THEN [cn EXCEPT !.pc = "cr_remove", !.old = cur]
                  ELSE [cn EXCEPT !.pc = "cr_create"]]
            /\ sent' = [sent EXCEPT ![c] = {}]
       ELSE IF req.type = "join_room"
       THEN IF GetRoom(req.room) = NoRoom
            THEN /\ conn' = [conn EXCEPT ![c] = Finish(cn, "RoomNotFound")]
                 /\ sent' = [sent EXCEPT ![c] = {Msg(c, "error", NoUser)}]
            ELSE /\ conn' = [conn EXCEPT ![c] = [cn EXCEPT !.pc = "jn_validate", !.r = req.room]]
                 /\ sent' = [sent EXCEPT ![c] = {}]
       ELSE IF req.type \in {"leave_room", "close"}
       THEN IF cur = NoRoom
            THEN /\ conn' = [conn EXCEPT ![c] =
                        IF req.type = "close" THEN [cn EXCEPT !.pc = "lv_left"]
                        ELSE Finish(cn, "NotInRoom")]
                 /\ sent' = [sent EXCEPT ![c] = {}]
            ELSE /\ conn' = [conn EXCEPT ![c] = [cn EXCEPT !.pc = "lv_remove", !.r = cur]]
                 /\ sent' = [sent EXCEPT ![c] = {}]
       ELSE \* getUserAndRoom
            IF cur = NoRoom
            THEN /\ conn' = [conn EXCEPT ![c] = Finish(cn, "NotInRoom")]
                 /\ sent' = [sent EXCEPT ![c] = {Msg(c, "error", NoUser)}]
            ELSE /\ conn' = [conn EXCEPT ![c] = [cn EXCEPT !.pc = "call", !.r = cur]]
                 /\ sent' = [sent EXCEPT ![c] = {}]
    /\ UNCHANGED <<rooms, registry, users>>
    /\ HistNext

\* Apply the result of a Room method to the room object id.
Apply(id, res) ==
    /\ rooms' = [rooms EXCEPT ![id] = res.rm]
    /\ users' = res.us

\* handleCreateRoom: oldRoom.RemoveUser
CrRemove(c) ==
    /\ conn[c].pc = "cr_remove"
    /\ Apply(conn[c].old, RemoveUser(rooms[conn[c].old], users, c))
    /\ conn' = [conn EXCEPT ![c].pc = "cr_create"]
    /\ UNCHANGED <<registry, sent>>
    /\ HistNext

\* Manager.CreateRoom; generateRoomID is taken to return an id not used before.
CreateRoom(c) ==
    /\ conn[c].pc = "cr_create"
    /\ LET id == CHOOSE i \in RoomIds \ Created : \A j \in RoomIds \ Created : i <= j
       IN  /\ rooms' = [rooms EXCEPT ![id] = NewRoom(id, conn[c].req.password, c)]
           /\ registry' = registry \cup {id}
           /\ conn' = [conn EXCEPT ![c].pc = "cr_add", ![c].r = id]
    /\ UNCHANGED <<users, sent>>
    /\ HistNext

\* handleCreateRoom: r.AddUser(u)
CrAdd(c) ==
    /\ conn[c].pc = "cr_add"
    /\ Apply(conn[c].r, AddUser(rooms[conn[c].r], users, c))
    /\ conn' = [conn EXCEPT ![c].pc = "b_state"]
    /\ UNCHANGED <<registry, sent>>
    /\ HistNext

\* handleJoinRoom: ValidatePassword, then the lookup of the room to leave.
JnValidate(c) ==
    /\ conn[c].pc = "jn_validate"
    /\ LET cur == GetRoom(users[c].roomID)
       IN  IF ~ValidatePassword(rooms[conn[c].r], conn[c].req.password)
           THEN /\ conn' = [conn EXCEPT ![c] = Finish(@, "WrongPassword")]
                /\ sent' = [sent EXCEPT ![c] = {Msg(c, "error", NoUser)}]
           ELSE /\ conn' = [conn EXCEPT ![c] =
                      IF users[c].roomID # conn[c].r /\ cur # NoRoom
                      THEN [@ EXCEPT !.pc = "jn_remove", !.old = cur]
                      ELSE [@ EXCEPT !.pc = "jn_add"]]
                /\ UNCHANGED sent
    /\ UNCHANGED <<rooms, registry, users>>
    /\ HistNext

JnRemove(c) ==
    /\ conn[c].pc = "jn_remove"
    /\ Apply(conn[c].old, RemoveUser(rooms[conn[c].old], users, c))
    /\ conn' = [conn EXCEPT ![c].pc = "jn_add"]
    /\ UNCHANGED <<registry, sent>>
    /\ HistNext

JnAdd(c) ==
    /\ conn[c].pc = "jn_add"
    /\ Apply(conn[c].r, AddUser(rooms[conn[c].r], users, c))
    /\ conn' = [conn EXCEPT ![c].pc = "b_state"]
    /\ UNCHANGED <<registry, sent>>
    /\ HistNext

\* handleLeaveRoom / OnClose: r.RemoveUser
LvRemove(c) ==
    /\ conn[c].pc = "lv_remove"
    /\ Apply(conn[c].r, RemoveUser(rooms[conn[c].r], users, c))
    /\ conn' = [conn EXCEPT ![c].pc = "lv_check"]
    /\ UNCHANGED <<registry, sent>>
    /\ HistNext

\* len(r.Users) == 0, read without the room's lock
LvCheck(c) ==
    /\ conn[c].pc = "lv_check"
    /\ conn' = [conn EXCEPT ![c].pc =
                    IF rooms[conn[c].r].users = {} THEN "lv_delete" ELSE "b_state"]
    /\ UNCHANGED <<rooms, registry, users, sent>>
    /\ HistNext

\* Manager.DeleteRoom
DeleteRoom(c) ==
    /\ conn[c].pc = "lv_delete"
    /\ registry' = registry \ {conn[c].r}
    /\ conn' = [conn EXCEPT ![c].pc = "lv_left"]
    /\ UNCHANGED <<rooms, users, sent>>
    /\ HistNext

\* The end of handleLeaveRoom (the left message) and of OnClose (the user is dropped).
LvLeft(c) ==
    /\ conn[c].pc = "lv_left"
    /\ IF conn[c].req.type = "close"
       THEN /\ conn' = [conn EXCEPT ![c] = FreshConn("closed")]
            /\ sent' = [sent EXCEPT ![c] = {}]
       ELSE /\ conn' = [conn EXCEPT ![c] = Finish(@, "ok")]
            /\ sent' = [sent EXCEPT ![c] = @ \cup {Msg(c, "left", NoUser)}]
    /\ UNCHANGED <<rooms, registry, users>>
    /\ HistNext

\* The Room method a request is dispatched to.
RoomOp(rm, us, c, req) ==
    CASE req.type = "set_role"        -> SetUserRole(rm, us, c, req.target, req.role, req.color)
      [] req.type = "set_password"    -> SetPassword(rm, us, c, req.password)
      [] req.type = "set_rule"        -> SetGameRule(rm, us, c, req.rule, req.config)
      [] req.type = "start_game"      -> StartGame(rm, us, c)
      [] req.type = "reset_game"      -> ResetGame(rm, us, c)
      [] req.type = "mark_cell"       -> RoomMarkCell(rm, us, c, req.row, req.col, req.color)
      [] req.type = "unmark_cell"     -> RoomUnmarkCell(rm, us, c, req.row, req.col)
      [] req.type = "clear_cell_mark" -> RoomClearCellMark(rm, us, c, req.row, req.col, req.color)
      [] req.type = "settle"          -> RoomSettle(rm, us, c, req.color)

\* SetGameRule installs a new Game object: a handler that already holds the old one
\* (through a RoomState) keeps reading the old object.
Holders(c, id) == {d \in Users \ {c} : InBroadcast(conn[d]) /\ conn[d].r = id /\ conn[d].live}

\* The Room call of a handler, then the error reply if it failed.
Call(c) ==
    /\ conn[c].pc = "call"
    /\ LET id  == conn[c].r
           res == RoomOp(rooms[id], users, c, conn[c].req)
           replaced == conn[c].req.type = "set_rule" /\ res.err = "ok"
       IN  /\ Apply(id, res)
           /\ conn' = [d \in Users |->
                 IF d = c
                 THEN (IF res.err = "ok" THEN [conn[c] EXCEPT !.pc = "b_state"]
                       ELSE Finish(conn[c], res.err))
                 ELSE IF replaced /\ d \in Holders(c, id)
                 THEN [conn[d] EXCEPT !.live = FALSE, !.held = rooms[id].game]
                 ELSE conn[d]]
           /\ sent' = [sent EXCEPT ![c] =
                 IF res.err = "ok" THEN @ ELSE {Msg(c, "error", NoUser)}]
    /\ UNCHANGED registry
    /\ HistNext

\* The Game object a handler's RoomState points to.
GameOf(cn) == IF cn.live THEN rooms[cn.r].game ELSE cn.held

\* r.GetState() under the room's read lock, then the first loop of convertGame: the 25
\* cells, read through the Game pointer with no lock held.
BState(c) ==
    /\ conn[c].pc = "b_state"
    /\ conn' = [conn EXCEPT ![c].pc = "b_send",
                            ![c].state = GetState(rooms[conn[c].r], users),
                            ![c].live = TRUE,
                            ![c].cells = rooms[conn[c].r].game.board]
    /\ UNCHANGED <<rooms, registry, users, sent>>
    /\ HistNext

\* The payload convertGame completes by reading the remaining fields of the Game.
Snapshot(cn) == [state |-> cn.state, game |-> [GameOf(cn) EXCEPT !.board = cn.cells]]

\* Who is written to: the creator alone (joined), or every member with a connection.
Recipients(c) ==
    IF conn[c].req.type = "create_room" THEN {c}
    ELSE rooms[conn[c].r].users \cap Connected

\* The remaining fields of convertGame, then the loop over r.Users and the sends
BSend(c) ==
    /\ conn[c].pc = "b_send"
    /\ sent' = [sent EXCEPT ![c] = @ \cup
                  {Msg(u, IF conn[c].req.type = "create_room" THEN "joined" ELSE "state_update", u)
                     : u \in Recipients(c)}]
    /\ conn' = [conn EXCEPT ![c] =
                  IF conn[c].req.type \in {"leave_room", "close"}
                  THEN [@ EXCEPT !.pc = "lv_left"]
                  ELSE Finish(@, "ok")]
    /\ UNCHANGED <<rooms, registry, users>>
    /\ HistNext

\* The handler returns; the task waits for the next message.
Return(c) ==
    /\ conn[c].pc = "done"
    /\ conn' = [conn EXCEPT ![c] = FreshConn("idle")]
    /\ sent' = [sent EXCEPT ![c] = {}]
    /\ UNCHANGED <<rooms, registry, users>>
    /\ HistNext

(***************************************************************************)
(* Requests                                                                 *)
(***************************************************************************)
LobbyRequests ==
    {[NoReq EXCEPT !.type = "create_room"], [NoReq EXCEPT !.type = "leave_room"],
     [NoReq EXCEPT !.type = "close"]}
    \cup {[NoReq EXCEPT !.type = "join_room", !.room = i] : i \in RoomIds}

\* set_role requests: a target, and a role with the color the request carries.
RoleRequests(targets, choices) ==
    {[NoReq EXCEPT !.type = "set_role", !.target = t, !.role = rc[1], !.color = rc[2]]
        : t \in targets, rc \in choices}

\* The steps handlers are made of, by handler.
CreateSteps(c) == CrRemove(c) \/ CreateRoom(c) \/ CrAdd(c)
JoinSteps(c) == JnValidate(c) \/ JnRemove(c) \/ JnAdd(c)
LeaveSteps(c) == LvRemove(c) \/ LvCheck(c) \/ DeleteRoom(c) \/ LvLeft(c)
BroadcastSteps(c) == BState(c) \/ BSend(c) \/ Return(c)

HandlerStep(c) == CreateSteps(c) \/ JoinSteps(c) \/ LeaveSteps(c) \/ BroadcastSteps(c)

(***************************************************************************)
(* SpecSeq: every connection opens, creates, joins, switches and leaves    *)
(* rooms and closes; a message is taken up when no handler is running, so  *)
(* each handler runs from its first to its last step without interleaving.  *)
(***************************************************************************)
Racers == 1..MaxRacers

NextSeq ==
    \E c \in Users :
        \/ OnOpen(c)
        \/ (Busy = {} /\ \E req \in LobbyRequests : Dispatch(c, req))
        \/ HandlerStep(c)

SpecSeq == Init /\ [][NextSeq]_vars

(***************************************************************************)
(* Properties of room membership and the registry (SpecSeq).                *)
(***************************************************************************)
\* No handler is between its first and its last step.
Quiet == \A c \in Users : conn[c].pc \in {"offline", "closed", "idle", "done"}

\* The requests after which handler.go calls broadcastRoomState.
Mutating ==
    {"join_room", "leave_room", "set_role", "set_password", "set_rule", "start_game",
     "reset_game", "mark_cell", "unmark_cell", "clear_cell_mark", "settle"}

Snapshots(c, id) ==
    \A u \in rooms[id].users \cap Connected : Msg(u, "state_update", u) \in sent[c]

\* C6: when a successful mutating request has been handled, every connected member of
\* the room it changed, and of the room its sender left by creating or joining another
\* room, has been sent a state snapshot whose current_user is the recipient's own id.
C6_EveryMemberNotified ==
    \A c \in Users :
        (conn[c].pc = "done" /\ conn[c].err = "ok") =>
            /\ conn[c].req.type \in Mutating => Snapshots(c, conn[c].r)
            /\ (conn[c].req.type \in {"create_room", "join_room"} /\ conn[c].old # NoRoom)
                  => Snapshots(c, conn[c].old)

\* C7: a registered room with at least one member is owned by one of its members.
C7_OwnerIsMember ==
    \A i \in registry : rooms[i].users # {} => rooms[i].ownerID \in rooms[i].users

\* C8: the user create_room adds to its new room becomes the room's owner with role
\* referee; a user added to a room that already has members becomes a spectator with no
\* color.
C8_FirstUserOwnerAndReferee ==
    [][\A c \in Users, i \in RoomIds :
          (c \notin rooms[i].users /\ c \in rooms'[i].users) =>
              IF conn[c].pc = "cr_add"
              THEN rooms'[i].ownerID = c /\ users'[c].role = "referee"
              ELSE rooms[i].users # {} =>
                      users'[c].role = "spectator" /\ users'[c].color = "none"]_vars

\* C10: whenever no handler is running, every room in the registry has a member.
C10_NoEmptyRoomRegistered ==
    Quiet => \A i \in registry : rooms[i].users # {}

(***************************************************************************)
(* SpecLobby: the same requests from connections 1..MaxRacers, their        *)
(* handlers interleaved at every lock boundary.                             *)
(***************************************************************************)
NextLobby ==
    \E c \in Racers :
        \/ OnOpen(c)
        \/ \E req \in LobbyRequests : Dispatch(c, req)
        \/ HandlerStep(c)

SpecLobby == Init /\ [][NextLobby]_vars

(***************************************************************************)
(* SpecPhase: the engine under the phase rule.  Room 1 has been created by  *)
(* connection 1, which set the phase rule with one of PhaseConfigs and      *)
(* started the game; the steps are direct calls of Game.MarkCell,           *)
(* Game.UnmarkCell and Game.ClearCellMark on the room's Game.               *)
(***************************************************************************)
\* The configurations handleSetRule builds from a payload: the defaults, and the defaults
\* with cellsPerRow and unlockThreshold overridden.
PhaseConfigs ==
    {DefaultPhaseConfig,
     [DefaultPhaseConfig EXCEPT !.cellsPerRow = 1, !.unlockThreshold = 1]}

\* Room 1 after create_room by connection 1, set_rule(rule, config) and start_game.
StartedRoom(rule, config) ==
    LET a == AddUser(NewRoom(1, "", 1), [u \in Users |-> NewUser], 1)
        b == SetGameRule(a.rm, a.us, 1, rule, config)
    IN  StartGame(b.rm, b.us, 1)

InitPhase ==
    /\ \E config \in PhaseConfigs :
          /\ rooms = [i \in RoomIds |->
                        IF i = 1 THEN StartedRoom("phase", config).rm ELSE NoRoomObject]
          /\ users = StartedRoom("phase", config).us
    /\ registry = {1}
    /\ conn = [u \in Users |-> IF u = 1 THEN FreshConn("idle") ELSE FreshConn("offline")]
    /\ sent = [u \in Users |-> {}]
    /\ hist = [u \in Users |-> {}]

EngineCall(res) ==
    /\ rooms' = [rooms EXCEPT ![1].game = res.g]
    /\ UNCHANGED <<registry, users, conn, sent, hist>>

PhaseMark ==
    \E player \in Colors, row \in Rows, col \in 0..MaxCol :
        EngineCall(MarkCell(rooms[1].game, row, col, player))

PhaseUnmark ==
    \E row \in Rows, col \in 0..MaxCol :
        EngineCall(UnmarkCell(rooms[1].game, row, col))

PhaseClear ==
    \E player \in Colors, row \in Rows, col \in 0..MaxCol :
        EngineCall(ClearCellMark(rooms[1].game, row, col, player))

NextPhase == PhaseMark \/ PhaseUnmark \/ PhaseClear

SpecPhase == InitPhase /\ [][NextPhase]_vars

(***************************************************************************)
(* Properties of the phase rule's tracking (SpecPhase).                     *)
(***************************************************************************)
PhaseGame == rooms[1].game

\* The largest r in 0..LastRow such that every row below r has reached the threshold.
LargestUnlockable(g, player) ==
    CHOOSE r \in Rows :
        /\ \A q \in 0..(r - 1) : RowMarksOf(g, player)[q] >= g.phaseConfig.unlockThreshold
        /\ \A s \in Rows :
              (\A q \in 0..(s - 1) : RowMarksOf(g, player)[q] >= g.phaseConfig.unlockThreshold)
                 => s <= r

\* C1: under the phase rule, after any sequence of MarkCell, UnmarkCell and ClearCellMark
\* calls, the unlocked row of each color is the largest row all of whose predecessors
\* have reached unlockThreshold marks of that color.
C1_UnlockedRowIsLargest ==
    \A player \in Colors : UnlockedRowOf(PhaseGame, player) = LargestUnlockable(PhaseGame, player)

\* A step that is a completed UnmarkCell or ClearCellMark call.
UnmarkOrClearStep ==
    \E row \in Rows, col \in 0..MaxCol :
        \/ rooms'[1].game = UnmarkCell(PhaseGame, row, col).g
        \/ \E player \in Colors : rooms'[1].game = ClearCellMark(PhaseGame, row, col, player).g

\* The recorded Bingo, if any, is a line whose five cells the achiever holds.
BingoHeld(g) ==
    g.bingoAchiever # "none" =>
        /\ g.bingoLine \in 0..DiagUp
        /\ \A i \in 0..LastRow : Holds(g.board[PhaseLine(g.bingoLine)[i]], g.bingoAchiever)

\* C2: under the phase rule, in the state an UnmarkCell or ClearCellMark call leaves, a
\* recorded Bingo is a line its achiever still holds in full.
C2_BingoHeldAfterClear == [][UnmarkOrClearStep => BingoHeld(rooms'[1].game)]_vars

(***************************************************************************)
(* SpecPlay: room 1 holds connection 1 (owner, referee), connection 2      *)
(* (player red) and connection 3 (player blue) and runs a started phase    *)
(* game; connections 1..MaxRacers send game requests, their handlers        *)
(* interleaved at every lock boundary.                                      *)
(***************************************************************************)
\* Room 1 after create_room by 1, set_rule, start_game, join_room by 2 and 3, and the
\* three set_role requests of the owner.
PlayRoom ==
    LET a == StartedRoom("phase", [DefaultPhaseConfig EXCEPT !.cellsPerRow = 1,
                                                               !.unlockThreshold = 1])
        b == AddUser(a.rm, a.us, 2)
        c == AddUser(b.rm, b.us, 3)
        d == SetUserRole(c.rm, c.us, 1, 1, "referee", "none")
        e == SetUserRole(d.rm, d.us, 1, 2, "player", "red")
    IN  SetUserRole(e.rm, e.us, 1, 3, "player", "blue")

InitPlay ==
    /\ rooms = [i \in RoomIds |-> IF i = 1 THEN PlayRoom.rm ELSE NoRoomObject]
    /\ users = PlayRoom.us
    /\ registry = {1}
    /\ conn = [u \in Users |-> FreshConn("idle")]
    /\ sent = [u \in Users |-> {}]
    /\ hist = [u \in Users |-> {}]

PlayRequests ==
    {[NoReq EXCEPT !.type = "mark_cell", !.row = row, !.col = col, !.color = color]
        : row \in 0..MaxPlayRow, col \in 0..MaxPlayCol, color \in Colors}
    \cup {[NoReq EXCEPT !.type = "unmark_cell"],
          [NoReq EXCEPT !.type = "settle", !.color = "red"],
          [NoReq EXCEPT !.type = "start_game"]}

NextPlay ==
    \E c \in Racers :
        \/ \E req \in PlayRequests : Dispatch(c, req)
        \/ Call(c)
        \/ BroadcastSteps(c)

SpecPlay == InitPlay /\ [][NextPlay]_vars

(***************************************************************************)
(* Properties of concurrent game requests (SpecPlay).                       *)
(***************************************************************************)
\* Connection c has a mark_cell request that has not yet made its Room call.
MarkPending(c) == conn[c].pc = "call" /\ conn[c].req.type = "mark_cell"

ReqCell(c) == <<conn[c].req.row, conn[c].req.col>>

\* The Room call of c's handler is taken in this step.
Called(c) == conn[c].pc = "call" /\ conn'[c].pc # "call"

\* C3 as stated: of two pending mark_cell requests on distinct cells of one room, each of
\* which the room would accept now, the second is still accepted once the first has been
\* applied.
C3_ConcurrentMarksAllSucceed ==
    [][\A c, d \in Users :
          (/\ c # d
           /\ MarkPending(c) /\ MarkPending(d)
           /\ conn[c].r = conn[d].r
           /\ ReqCell(c) # ReqCell(d)
           /\ RoomOp(rooms[conn[c].r], users, c, conn[c].req).err = "ok"
           /\ RoomOp(rooms[conn[d].r], users, d, conn[d].req).err = "ok"
           /\ Called(c))
          => RoomOp(rooms'[conn[d].r], users', d, conn[d].req).err = "ok"]_vars

\* C3 as amended: mark_cell requests are applied one at a time; each is accepted exactly
\* when the rules accept it on the board its predecessors left, an accepted mark is on the
\* board, and no call changes a cell other than the one it addresses (no lost update).
C3_MarksSerialized ==
    [][\A c \in Users :
          (MarkPending(c) /\ Called(c)) =>
              LET id   == conn[c].r
                  res  == RoomOp(rooms[id], users, c, conn[c].req)
                  cell == ReqCell(c)
              IN  /\ (conn'[c].pc = "b_state") <=> (res.err = "ok")
                  /\ res.err = "ok" =>
                        Holds(rooms'[id].game.board[cell], conn[c].req.color)
                  /\ \A x \in Cells \ {cell} :
                        rooms'[id].game.board[x] = rooms[id].game.board[x]]_vars

\* Two handlers have had mark_cell requests on distinct cells accepted, and both marks
\* are on the board.
C3_Witness ==
    \E c, d \in Users :
        /\ c # d
        /\ conn[c].pc = "done" /\ conn[c].err = "ok" /\ conn[c].req.type = "mark_cell"
        /\ conn[d].pc = "b_send" /\ conn[d].req.type = "mark_cell"
        /\ ReqCell(c) # ReqCell(d)
        /\ Holds(rooms[1].game.board[ReqCell(c)], conn[c].req.color)
        /\ Holds(rooms[1].game.board[ReqCell(d)], conn[d].req.color)

\* C4: the payload a broadcast is about to send equals the room's state at one instant
\* since its GetState call.
C4_SnapshotOfOneInstant ==
    \A c \in Users : conn[c].pc = "b_send" => Snapshot(conn[c]) \in hist[c]

\* C5: a Room call that returns an error leaves every room, the registry and every user
\* unchanged, and its handler ends having written one error message to the requester and
\* nothing to anyone else.
C5_FailedCallChangesNothing ==
    [][\A c \in Users :
          (Called(c) /\ conn'[c].pc # "b_state") =>
              /\ rooms' = rooms /\ users' = users /\ registry' = registry
              /\ conn'[c].pc = "done" /\ conn'[c].err # "ok"
              /\ sent'[c] = {Msg(c, "error", NoUser)}
              /\ \A d \in Users \ {c} : sent'[d] = sent[d]]_vars

\* A mark_cell was rejected by the phase rule's row limit and a settle by CanSettle,
\* on a board that holds marks.
C5_Witness ==
    /\ \E c \in Users : conn[c].pc = "done" /\ conn[c].err = "RowLimitExceeded"
    /\ \E d \in Users : conn[d].pc = "done" /\ conn[d].err = "CannotSettleYet"
    /\ rooms[1].game.board # NewBoard

(***************************************************************************)
(* Properties of roles (SpecRoles).                                         *)
(***************************************************************************)
Wearing(i, color) == {u \in rooms[i].users : users[u].color = color}

RECURSIVE Joined(_)
Joined(n) ==
    IF n = 1 THEN AddUser(NewRoom(1, "", 1), [u \in Users |-> NewUser], 1)
    ELSE AddUser(Joined(n - 1).rm, Joined(n - 1).us, n)

InitRoles ==
    /\ rooms = [i \in RoomIds |-> IF i = 1 THEN Joined(MaxRacers).rm ELSE NoRoomObject]
    /\ users = Joined(MaxRacers).us
    /\ registry = {1}
    /\ conn = [u \in Users |-> IF u \in Racers THEN FreshConn("idle") ELSE FreshConn("offline")]
    /\ sent = [u \in Users |-> {}]
    /\ hist = [u \in Users |-> {}]

RolesRequests ==
    {[NoReq EXCEPT !.type = "leave_room"], [NoReq EXCEPT !.type = "join_room", !.room = 1]}
    \cup RoleRequests(Racers, {<<"spectator", "none">>, <<"player", "red">>,
                                <<"player", "blue">>})

NextRoles ==
    \E c \in Racers :
        \/ \E req \in RolesRequests : Dispatch(c, req)
        \/ JnValidate(c) \/ JnAdd(c)
        \/ LeaveSteps(c)
        \/ Call(c)
        \/ BroadcastSteps(c)

SpecRoles == InitRoles /\ [][NextRoles]_vars

(***************************************************************************)
(* SpecJoin: room 1 has been created by connection 1; connections          *)
(* 1..MaxRacers join it with a password, leave it and set its password,     *)
(* their handlers interleaved at every lock boundary.                       *)
(***************************************************************************)
Passwords == {"", "pw"}

InitJoin ==
    /\ rooms = [i \in RoomIds |-> IF i = 1 THEN Joined(1).rm ELSE NoRoomObject]
    /\ users = Joined(1).us
    /\ registry = {1}
    /\ conn = [u \in Users |-> IF u \in Racers THEN FreshConn("idle") ELSE FreshConn("offline")]
    /\ sent = [u \in Users |-> {}]
    /\ hist = [u \in Users |-> {}]

JoinRequests ==
    {[NoReq EXCEPT !.type = "leave_room"]}
    \cup {[NoReq EXCEPT !.type = "join_room", !.room = 1, !.password = p] : p \in Passwords}
    \cup {[NoReq EXCEPT !.type = "set_password", !.password = p] : p \in Passwords}

NextJoin ==
    \E c \in Racers :
        \/ \E req \in JoinRequests : Dispatch(c, req)
        \/ JnValidate(c) \/ JnAdd(c)
        \/ LeaveSteps(c)
        \/ Call(c)
        \/ BroadcastSteps(c)

SpecJoin == InitJoin /\ [][NextJoin]_vars

\* C11: a request takes effect only if its authorization holds in the state the mutation
\* is applied to: a user becomes a member through join_room only when the password of
\* the request is valid for the room at that moment, and a Room call changes the room or
\* its users only when its checks pass on the state it changes.
C11_AuthorizedWhenApplied ==
    [][\A c \in Users :
          /\ (conn[c].pc = "jn_add" /\ c \notin rooms[conn[c].r].users
                 /\ c \in rooms'[conn[c].r].users)
                => ValidatePassword(rooms[conn[c].r], conn[c].req.password)
          /\ (Called(c) /\ (rooms' # rooms \/ users' # users))
                => RoomOp(rooms[conn[c].r], users, c, conn[c].req).err = "ok"]_vars

(***************************************************************************)
(* SpecSettle: the engine under the phase rule, with settlement.  Room 1    *)
(* runs a started phase game; the steps are direct calls of Game.MarkCell   *)
(* and Game.Settle.                                                         *)
(***************************************************************************)
\* Configurations handleSetRule builds from a payload: the default scores, and scores
\* and bonuses of the payload's own.
SettleConfigs ==
    {[DefaultPhaseConfig EXCEPT !.cellsPerRow = 2, !.unlockThreshold = 1],
     [rowScores |-> <<1, 2, 3, 4, 5>>, secondHalfScores |-> <<1, 1, 1, 1, 1>>,
      cellsPerRow |-> 2, unlockThreshold |-> 1, bingoBonus |-> 5, finalBonus |-> 1]}

SettleCells == {c \in Cells : c[2] <= MaxCol \/ (c[1] = LastRow /\ c[2] <= MaxSettleCol)}

\* What PlayerColorFromString yields: red, blue, and none for any other string.
PlayerColors == {"none", "red", "blue"}

InitSettle ==
    /\ \E config \in SettleConfigs :
          /\ rooms = [i \in RoomIds |->
                        IF i = 1 THEN StartedRoom("phase", config).rm ELSE NoRoomObject]
          /\ users = StartedRoom("phase", config).us
    /\ registry = {1}
    /\ conn = [u \in Users |-> IF u = 1 THEN FreshConn("idle") ELSE FreshConn("offline")]
    /\ sent = [u \in Users |-> {}]
    /\ hist = [u \in Users |-> {}]

SettleMark ==
    \E player \in Colors, c \in SettleCells :
        EngineCall(MarkCell(rooms[1].game, c[1], c[2], player))

SettleCall ==
    \E player \in PlayerColors : EngineCall(Settle(rooms[1].game, player))

NextSettle == SettleMark \/ SettleCall

SpecSettle == InitSettle /\ [][NextSettle]_vars

(***************************************************************************)
(* Properties of settlement (SpecSettle).                                   *)
(***************************************************************************)
SettleGame == rooms[1].game

Other(player) == IF player = "red" THEN "blue" ELSE "red"

Settled(g, player) == IF player = "red" THEN g.redSettled ELSE g.blueSettled

\* C12: while a phase game is playing and one color has settled as firstSettler, Settle
\* for the other color succeeds whatever its mark count in row 4, and leaves the game
\* finished.
C12_SecondSettlerUnconditional ==
    \A x \in Colors :
        (/\ SettleGame.status = "playing"
         /\ SettleGame.firstSettler = x
         /\ Settled(SettleGame, x) /\ ~Settled(SettleGame, Other(x)))
        => /\ Settle(SettleGame, Other(x)).err = "ok"
           /\ Settle(SettleGame, Other(x)).g.status = "finished"

\* Red settled first and blue settled after it with no mark in row 4.
C12_Witness ==
    /\ SettleGame.status = "finished"
    /\ SettleGame.firstSettler = "red"
    /\ SettleGame.redSettled /\ SettleGame.blueSettled
    /\ SettleGame.blueRowMarks[LastRow] = 0

\* C13: while a phase game is playing and no color has settled, Settle for a color with
\* fewer than 2 marks in row 4 returns CannotSettleYet and changes nothing.
C13_FirstSettlerNeedsMarks ==
    \A c \in Colors :
        (/\ SettleGame.status = "playing"
         /\ SettleGame.firstSettler = "none"
         /\ ~SettleGame.redSettled /\ ~SettleGame.blueSettled
         /\ RowMarksOf(SettleGame, c)[LastRow] < 2)
        => Settle(SettleGame, c) = Fail(SettleGame, "CannotSettleYet")

\* Nobody has settled; red has one mark in row 4 and is refused, blue has two.
C13_Witness ==
    /\ SettleGame.status = "playing"
    /\ SettleGame.firstSettler = "none"
    /\ ~SettleGame.redSettled /\ ~SettleGame.blueSettled
    /\ SettleGame.redRowMarks[LastRow] = 1
    /\ SettleGame.blueRowMarks[LastRow] = 2
    /\ Settle(SettleGame, "red").err = "CannotSettleYet"

\* The score of a color as the rules state it: per row, the row's score for each primary
\* claim and the row's second-half score for each secondary claim, plus the bonuses.
RECURSIVE ScoreUpTo(_, _, _)
ScoreUpTo(g, player, row) ==
    IF row < 0 THEN 0
    ELSE ScoreUpTo(g, player, row - 1)
         + g.phaseConfig.rowScores[row + 1]
             * Cardinality({col \in Cols : g.board[<<row, col>>].markedBy = player})
         + g.phaseConfig.secondHalfScores[row + 1]
             * Cardinality({col \in Cols : g.board[<<row, col>>].secondMark = player})

StatedScore(g, player) ==
    ScoreUpTo(g, player, LastRow)
    + (IF g.bingoAchiever = player THEN g.phaseConfig.bingoBonus ELSE 0)
    + (IF g.firstSettler = player THEN g.phaseConfig.finalBonus ELSE 0)

\* C14: the step in which the second color settles leaves the game finished with reason
\* phase, both scores as the rules state them, and as winner the color with the higher
\* score or, on equal scores, the first settler.
C14_PhaseResult ==
    [][(~(SettleGame.redSettled /\ SettleGame.blueSettled)
          /\ rooms'[1].game.redSettled /\ rooms'[1].game.blueSettled) =>
          LET g == rooms'[1].game
              r == StatedScore(g, "red")
              b == StatedScore(g, "blue")
          IN  /\ g.status = "finished"
              /\ g.winner = [winner    |-> IF r > b THEN "red"
                                           ELSE IF b > r THEN "blue" ELSE g.firstSettler,
                             reason    |-> "phase",
                             redScore  |-> r,
                             blueScore |-> b]]_vars

\* A finished settlement with a Bingo bonus, secondary claims, and the first settler
\* winning against the color that holds more primary points.
C14_Witness ==
    /\ SettleGame.status = "finished"
    /\ SettleGame.winner.reason = "phase"
    /\ SettleGame.bingoAchiever # "none"
    /\ \E c \in Cells : SettleGame.board[c].secondMark # "none"
    /\ SettleGame.winner.winner = SettleGame.firstSettler
    /\ SettleGame.winner.redScore = SettleGame.winner.blueScore

(***************************************************************************)
(* SpecNormal: room 1 holds user 1 (owner, referee), user 2 (player red)    *)
(* and user 3 (player blue) and runs a started normal game whose board is   *)
(* one of NormalPresets; the steps are calls of Room.MarkCell and           *)
(* Room.UnmarkCell on the cells of NormalCells.                             *)
(***************************************************************************)
\* The three set_role requests of the owner, after users 2 and 3 joined.
WithRoles(a) ==
    LET b == AddUser(a.rm, a.us, 2)
        c == AddUser(b.rm, b.us, 3)
        d == SetUserRole(c.rm, c.us, 1, 1, "referee", "none")
        e == SetUserRole(d.rm, d.us, 1, 2, "player", "red")
    IN  SetUserRole(e.rm, e.us, 1, 3, "player", "blue")

\* The cells the calls address.
NormalCells == {<<0, 4>>, <<2, 2>>, <<4, 0>>, <<4, 4>>}

\* A full board of 13 red and 12 blue cells with no line of one color.
FullPattern ==
    [c \in Cells |->
        IF c[1] = LastRow THEN (IF c[2] % 2 = 0 THEN "red" ELSE "blue")
        ELSE IF c[1] % 2 = 0 THEN (IF c[2] \in {0, 1, 4} THEN "red" ELSE "blue")
        ELSE (IF c[2] \in {2, 3} THEN "red" ELSE "blue")]

\* The marks made before the first step: none, red on four cells of row 0, or the full
\* pattern but for the cells of NormalCells.
NormalPresets ==
    {[c \in {} |-> "red"],
     [c \in {<<0, 0>>, <<0, 1>>, <<0, 2>>, <<0, 3>>} |-> "red"],
     [c \in Cells \ NormalCells |-> FullPattern[c]]}

\* Game.MarkCell for every mark of a preset, in the order of the cells.
RECURSIVE Filled(_, _)
Filled(g, marks) ==
    IF DOMAIN marks = {} THEN g
    ELSE LET c == CHOOSE x \in DOMAIN marks :
                     \A y \in DOMAIN marks : x[1] * (LastRow + 1) + x[2] <= y[1] * (LastRow + 1) + y[2]
             res  == MarkCell(g, c[1], c[2], marks[c])
             rest == [x \in DOMAIN marks \ {c} |-> marks[x]]
         IN  IF res.err = "ok" THEN Filled(res.g, rest) ELSE Filled(g, rest)

InitNormal ==
    /\ \E preset \in NormalPresets :
          LET a == WithRoles(StartedRoom("normal", DefaultPhaseConfig))
          IN  /\ rooms = [i \in RoomIds |->
                            IF i = 1 THEN [a.rm EXCEPT !.game = Filled(@, preset)]
                            ELSE NoRoomObject]
              /\ users = a.us
    /\ registry = {1}
    /\ conn = [u \in Users |-> FreshConn("idle")]
    /\ sent = [u \in Users |-> {}]
    /\ hist = [u \in Users |-> {}]

\* A Room method called on room 1.
RoomCall(res) ==
    /\ rooms' = [rooms EXCEPT ![1] = res.rm]
    /\ users' = res.us
    /\ UNCHANGED <<registry, conn, sent, hist>>

NormalMark ==
    \E u \in Users, c \in NormalCells, color \in Colors :
        RoomCall(RoomMarkCell(rooms[1], users, u, c[1], c[2], color))

NormalUnmark ==
    \E u \in Users, c \in NormalCells :
        RoomCall(RoomUnmarkCell(rooms[1], users, u, c[1], c[2]))

NextNormal == NormalMark \/ NormalUnmark

SpecNormal == InitNormal /\ [][NextNormal]_vars

NormalGame == rooms[1].game

\* The callers Room.MarkCell lets through to the game: the referee with any color, a player
\* with the color they wear.
MayMark(u, color) ==
    \/ users[u].role = "referee"
    \/ users[u].role = "player" /\ users[u].color = color

\* C15 as stated: in the normal rule a cell with markedBy other than none is not marked
\* again by any caller: every attempt fails with AlreadyMarked and changes nothing.
C15_AnyCallerRejected ==
    \A u \in rooms[1].users, c \in NormalCells, color \in Colors :
        (NormalGame.status = "playing" /\ NormalGame.board[c].markedBy # "none" /\ MayMark(u, color))
            => RoomMarkCell(rooms[1], users, u, c[1], c[2], color)
                   = RFail(rooms[1], users, "AlreadyMarked")

\* C15: in a normal game that is playing, a player's mark on a cell whose markedBy is not
\* none fails with AlreadyMarked and changes nothing, while the referee's mark succeeds
\* and sets markedBy to the color given.
C15_PlayersRejectedRefereeOverwrites ==
    \A u \in rooms[1].users, c \in NormalCells, color \in Colors :
        (NormalGame.status = "playing" /\ NormalGame.board[c].markedBy # "none" /\ MayMark(u, color))
            => LET res == RoomMarkCell(rooms[1], users, u, c[1], c[2], color)
               IN  IF users[u].role = "player"
                   THEN res = RFail(rooms[1], users, "AlreadyMarked")
                   ELSE /\ res.err = "ok"
                        /\ res.rm.game.board[c].markedBy = color

\* A playing normal game where blue holds a cell that player red and the referee both
\* address with red.
C15_Witness ==
    /\ NormalGame.status = "playing"
    /\ \E c \in NormalCells :
          /\ NormalGame.board[c].markedBy = "blue"
          /\ RoomMarkCell(rooms[1], users, 2, c[1], c[2], "red").err = "AlreadyMarked"
          /\ RoomMarkCell(rooms[1], users, 1, c[1], c[2], "red").rm.game.board[c].markedBy = "red"

\* The twelve lines of the board: five rows, five columns, two diagonals.
StatedLines ==
    {{<<r, c>> : c \in Cols} : r \in Rows}
        \cup {{<<r, c>> : r \in Rows} : c \in Cols}
        \cup {{<<i, i>> : i \in Rows}, {<<i, LastRow - i>> : i \in Rows}}

HeldBy(g, k) == {c \in Cells : g.board[c].markedBy = k}

\* The outcome the normal rule states for a board.
StatedNormalOutcome(g) ==
    LET liners == {k \in Colors : \E l \in StatedLines : l \subseteq HeldBy(g, k)}
        nr == Cardinality(HeldBy(g, "red"))
        nb == Cardinality(HeldBy(g, "blue"))
    IN  IF liners # {}
        THEN g.status = "finished" /\ g.winner.winner \in liners /\ g.winner.reason = "bingo"
        ELSE IF nr + nb = Cardinality(Cells)
        THEN /\ g.status = "finished"
             /\ g.winner.reason = "full_board"
             /\ g.winner.winner = (IF nr > nb THEN "red" ELSE "blue")
        ELSE g.status = "playing" /\ g.winner = NilWinner

\* A step that is a successful Room.MarkCell.
SuccessfulMark ==
    \E u \in Users, c \in NormalCells, color \in Colors :
        LET res == RoomMarkCell(rooms[1], users, u, c[1], c[2], color)
        IN  res.err = "ok" /\ rooms'[1] = res.rm

\* C16: in the normal rule, after every successful mark: a line of five cells of one color
\* finishes the game with that color as winner and reason bingo; otherwise a board of 25
\* claimed cells finishes it with reason full_board and the color holding more cells as
\* winner; otherwise the game is playing with no winner.
C16_NormalOutcome ==
    [][SuccessfulMark => StatedNormalOutcome(NormalGame')]_vars

\* A board of 13 red and 12 blue cells without a line: finished, full_board, red wins.
C16_Witness ==
    /\ Cardinality(HeldBy(NormalGame, "red")) = 13
    /\ Cardinality(HeldBy(NormalGame, "blue")) = 12
    /\ NormalGame.status = "finished"
    /\ NormalGame.winner.reason = "full_board"
    /\ NormalGame.winner.winner = "red"

\* Red's row 0 complete: finished, bingo, red wins.
C16_WitnessBingo ==
    /\ {<<0, c>> : c \in Cols} \subseteq HeldBy(NormalGame, "red")
    /\ NormalGame.status = "finished"
    /\ NormalGame.winner.reason = "bingo"
    /\ NormalGame.winner.winner = "red"

(***************************************************************************)
(* SpecBlackout: the room of SpecNormal with a started blackout game whose  *)
(* board is one of BlackoutPresets; the steps are calls of Room.MarkCell,   *)
(* Room.UnmarkCell and Room.ClearCellMark on the cells of BlackoutCells.    *)
(***************************************************************************)
BlackoutCells == {<<0, 0>>, <<2, 2>>, <<4, 4>>}

\* All other cells marked by one color.
Rest(color) == [c \in Cells \ BlackoutCells |-> color]

\* The marks made before the first step, as rounds of Game.MarkCell: none, red on the
\* other cells, red and then blue on them, blue and then red on them.
BlackoutPresets ==
    {<<>>, <<Rest("red")>>, <<Rest("red"), Rest("blue")>>, <<Rest("blue"), Rest("red")>>}

RECURSIVE FilledRounds(_, _)
FilledRounds(g, rounds) ==
    IF rounds = <<>> THEN g
    ELSE FilledRounds(Filled(g, Head(rounds)), Tail(rounds))

InitBlackout ==
    /\ \E preset \in BlackoutPresets :
          LET a == WithRoles(StartedRoom("blackout", DefaultPhaseConfig))
          IN  /\ rooms = [i \in RoomIds |->
                            IF i = 1 THEN [a.rm EXCEPT !.game = FilledRounds(@, preset)]
                            ELSE NoRoomObject]
              /\ users = a.us
    /\ registry = {1}
    /\ conn = [u \in Users |-> FreshConn("idle")]
    /\ sent = [u \in Users |-> {}]
    /\ hist = [u \in Users |-> {}]

BlackoutMark ==
    \E u \in Users, c \in BlackoutCells, color \in Colors :
        RoomCall(RoomMarkCell(rooms[1], users, u, c[1], c[2], color))

BlackoutUnmark ==
    \E u \in Users, c \in BlackoutCells :
        RoomCall(RoomUnmarkCell(rooms[1], users, u, c[1], c[2]))

BlackoutClear ==
    \E u \in Users, c \in BlackoutCells, color \in Colors :
        RoomCall(RoomClearCellMark(rooms[1], users, u, c[1], c[2], color))

NextBlackout == BlackoutMark \/ BlackoutUnmark \/ BlackoutClear

SpecBlackout == InitBlackout /\ [][NextBlackout]_vars

BlackoutGame == rooms[1].game

\* The cells a color claims, as first or as second mark.
Claims(g, k) == {c \in Cells : g.board[c].markedBy = k \/ g.board[c].secondMark = k}

\* A step that is a successful Room.MarkCell of the blackout game.
SuccessfulBlackoutMark ==
    \E u \in Users, c \in BlackoutCells, color \in Colors :
        LET res == RoomMarkCell(rooms[1], users, u, c[1], c[2], color)
        IN  res.err = "ok" /\ rooms'[1] = res.rm

\* C17: under the blackout rule a playing game becomes finished only in a step that takes
\* a color's claims (markedBy or secondMark) to 25, and a successful mark that does so
\* finishes the game with that color as winner and reason blackout, while a successful
\* mark that leaves both colors under 25 claims leaves the game playing with no winner.
C17_BlackoutOutcome ==
    [][/\ (BlackoutGame.status = "playing" /\ BlackoutGame'.status = "finished")
            => \E k \in Colors :
                  /\ Cardinality(Claims(BlackoutGame, k)) < Cardinality(Cells)
                  /\ Cardinality(Claims(BlackoutGame', k)) = Cardinality(Cells)
       /\ SuccessfulBlackoutMark
            => IF \E k \in Colors : Claims(BlackoutGame', k) = Cells
               THEN /\ BlackoutGame'.status = "finished"
                    /\ BlackoutGame'.winner.reason = "blackout"
                    /\ Claims(BlackoutGame', BlackoutGame'.winner.winner) = Cells
               ELSE /\ BlackoutGame'.status = "playing"
                    /\ BlackoutGame'.winner = NilWinner]_vars

\* Blue finished the game with 25 claims, some of them second marks on red's cells.
C17_Witness ==
    /\ BlackoutGame.status = "finished"
    /\ BlackoutGame.winner.winner = "blue"
    /\ BlackoutGame.winner.reason = "blackout"
    /\ Claims(BlackoutGame, "blue") = Cells
    /\ \E c \in Cells : BlackoutGame.board[c].secondMark = "blue"
    /\ Cardinality(Claims(BlackoutGame, "red")) = 24

(***************************************************************************)
(* Properties of ClearCellMark (SpecPhase).                                 *)
(***************************************************************************)
\* C18: in a started game, ClearCellMark(row, col, color) on a cell where that color is
\* neither markedBy nor secondMark returns no error and leaves the whole game unchanged.
C18_ClearWithoutClaimIsNoOp ==
    \A row \in Rows, col \in 0..MaxCol, color \in PlayerColors :
        (/\ PhaseGame.status # "waiting"
         /\ PhaseGame.board[<<row, col>>].markedBy # color
         /\ PhaseGame.board[<<row, col>>].secondMark # color)
            => ClearCellMark(PhaseGame, row, col, color) = Ok(PhaseGame)

\* Red holds cell (1,0) alone, blue has marks and an unlocked row of its own, and a
\* ClearCellMark for blue on (1,0) leaves the game as it is.
C18_Witness ==
    /\ PhaseGame.board[<<1, 0>>].markedBy = "red"
    /\ PhaseGame.board[<<1, 0>>].secondMark = "none"
    /\ PhaseGame.blueRowMarks[0] > 0
    /\ PhaseGame.blueUnlockedRow > 0
    /\ ClearCellMark(PhaseGame, 1, 0, "blue") = Ok(PhaseGame)

(***************************************************************************)
(* SpecBingo: a started phase game whose board is one of BingoPresets, red  *)
(* being the Bingo achiever on column 0 or on the diagonal; the steps are   *)
(* Game.MarkCell, Game.UnmarkCell and Game.ClearCellMark on BingoCells.     *)
(***************************************************************************)
\* A configuration of a set_rule payload: one mark unlocks the next row.
BingoConfig == [DefaultPhaseConfig EXCEPT !.unlockThreshold = 1]

BingoCells == {<<0, 0>>, <<2, 2>>, <<4, 0>>}

Column(col, color) == [c \in {<<r, col>> : r \in Rows} |-> color]

Diagonal(color) == [c \in {<<i, i>> : i \in Rows} |-> color]

\* The marks made before the first step, as rounds of Game.MarkCell.
BingoPresets ==
    {<<Column(0, "red")>>,
     <<Column(0, "red"), Column(1, "red")>>,
     <<Column(0, "red"), Column(1, "blue")>>,
     <<Column(0, "red"), Column(0, "blue")>>,
     <<Diagonal("red"), Column(4, "blue")>>,
     <<Column(0, "red"), Diagonal("red"), Column(3, "blue")>>}

InitBingo ==
    /\ \E preset \in BingoPresets :
          LET a == StartedRoom("phase", BingoConfig)
          IN  /\ rooms = [i \in RoomIds |->
                            IF i = 1 THEN [a.rm EXCEPT !.game = FilledRounds(@, preset)]
                            ELSE NoRoomObject]
              /\ users = a.us
    /\ registry = {1}
    /\ conn = [u \in Users |-> IF u = 1 THEN FreshConn("idle") ELSE FreshConn("offline")]
    /\ sent = [u \in Users |-> {}]
    /\ hist = [u \in Users |-> {}]

BingoMark ==
    \E player \in Colors, c \in BingoCells :
        EngineCall(MarkCell(rooms[1].game, c[1], c[2], player))

BingoUnmark ==
    \E c \in BingoCells : EngineCall(UnmarkCell(rooms[1].game, c[1], c[2]))

BingoClear ==
    \E player \in Colors, c \in BingoCells :
        EngineCall(ClearCellMark(rooms[1].game, c[1], c[2], player))

NextBingo == BingoMark \/ BingoUnmark \/ BingoClear

SpecBingo == InitBingo /\ [][NextBingo]_vars

\* The cells of the line with a given index: columns 0..4, then the two diagonals.
StatedPhaseLine(l) ==
    IF l <= LastRow THEN {<<r, l>> : r \in Rows}
    ELSE IF l = DiagDown THEN {<<i, i>> : i \in Rows}
    ELSE {<<i, LastRow - i>> : i \in Rows}

\* The lines one color holds in full, by first or second mark.
FullyHeld(g) ==
    {l \in 0..DiagUp : \E k \in Colors : StatedPhaseLine(l) \subseteq Claims(g, k)}

\* A step in which ClearCellMark clears a cell of the Bingo achiever on its complete line.
ClearsBingoCell ==
    \E c \in BingoCells :
        /\ PhaseGame.bingoAchiever # "none"
        /\ PhaseGame.bingoLine \in 0..DiagUp
        /\ StatedPhaseLine(PhaseGame.bingoLine) \subseteq Claims(PhaseGame, PhaseGame.bingoAchiever)
        /\ c \in StatedPhaseLine(PhaseGame.bingoLine)
        /\ rooms'[1].game = ClearCellMark(PhaseGame, c[1], c[2], PhaseGame.bingoAchiever).g

\* The Bingo recorded is the first line of a set in scan order, held by its achiever.
BingoIsFirstOf(g, lines) ==
    IF lines = {}
    THEN g.bingoAchiever = "none" /\ g.bingoLine = NoBingoLine
    ELSE /\ g.bingoLine \in lines
         /\ \A l \in lines : g.bingoLine <= l
         /\ g.bingoAchiever \in Colors
         /\ StatedPhaseLine(g.bingoLine) \subseteq Claims(g, g.bingoAchiever)

C19_WitnessNone ==
    /\ FullyHeld(PhaseGame) = {}
    /\ PhaseGame.bingoAchiever = "none"
    /\ PhaseGame.bingoLine = NoBingoLine
    /\ Cardinality(Claims(PhaseGame, "red") \cap StatedPhaseLine(0)) = 4

(***************************************************************************)
(* Row locking of the phase rule (SpecPhase).                               *)
(***************************************************************************)
\* C20: under the phase rule, in a playing game, MarkCell by a color on a row r >= 1 fails
\* with RowLocked whenever that color's mark count in row r - 1 is below unlockThreshold,
\* also when the count fell below it through clears after the row was unlocked.
C20_LockedBelowThreshold ==
    \A player \in Colors, row \in 1..LastRow, col \in 0..MaxCol :
        (/\ PhaseGame.status = "playing"
         /\ RowMarksOf(PhaseGame, player)[row - 1] < PhaseGame.phaseConfig.unlockThreshold)
            => MarkCell(PhaseGame, row, col, player).err = "RowLocked"

(***************************************************************************)
(* SpecAuth: room 1 holds user 1 (owner, referee), user 2 (player red) and  *)
(* user 3 (one of ThirdRoles) and runs a started game of one of AuthGames;  *)
(* the steps are calls of Room.MarkCell, Room.UnmarkCell,                   *)
(* Room.ClearCellMark and Room.Settle by every member with every color.     *)
(***************************************************************************)
\* What set_role made of user 3.
ThirdRoles ==
    {[role |-> "player", color |-> "blue"],
     [role |-> "spectator", color |-> "none"],
     [role |-> "player", color |-> "none"]}

\* The set_role requests of the owner after users 2 and 3 joined.
RolesOf(a, third) ==
    LET b == AddUser(a.rm, a.us, 2)
        c == AddUser(b.rm, b.us, 3)
        d == SetUserRole(c.rm, c.us, 1, 1, "referee", "none")
        e == SetUserRole(d.rm, d.us, 1, 2, "player", "red")
    IN  SetUserRole(e.rm, e.us, 1, 3, third.role, third.color)

AuthCells == {<<0, 0>>, <<0, 1>>, <<1, 0>>}

\* Both colors on columns 3 and 4, red first: every row unlocked, two marks of each color
\* in row 4.
TwoColumns == <<Column(3, "red") @@ Column(4, "red"), Column(3, "blue") @@ Column(4, "blue")>>

\* The games at the first step: rule, configuration of the set_rule payload, marks made.
AuthGames ==
    {[rule |-> "normal", config |-> DefaultPhaseConfig, marks |-> <<>>],
     [rule |-> "blackout", config |-> DefaultPhaseConfig, marks |-> <<>>],
     [rule |-> "phase", config |-> BingoConfig, marks |-> <<>>],
     [rule |-> "phase", config |-> DefaultPhaseConfig, marks |-> TwoColumns]}

InitAuth ==
    /\ \E start \in AuthGames, third \in ThirdRoles :
          LET a == RolesOf(StartedRoom(start.rule, start.config), third)
          IN  /\ rooms = [i \in RoomIds |->
                            IF i = 1 THEN [a.rm EXCEPT !.game = FilledRounds(@, start.marks)]
                            ELSE NoRoomObject]
              /\ users = a.us
    /\ registry = {1}
    /\ conn = [u \in Users |-> FreshConn("idle")]
    /\ sent = [u \in Users |-> {}]
    /\ hist = [u \in Users |-> {}]

AuthMark ==
    \E u \in Users, c \in AuthCells, color \in PlayerColors :
        RoomCall(RoomMarkCell(rooms[1], users, u, c[1], c[2], color))

AuthUnmark ==
    \E u \in Users, c \in AuthCells :
        RoomCall(RoomUnmarkCell(rooms[1], users, u, c[1], c[2]))

AuthClear ==
    \E u \in Users, c \in AuthCells, color \in PlayerColors :
        RoomCall(RoomClearCellMark(rooms[1], users, u, c[1], c[2], color))

AuthSettle ==
    \E u \in Users, color \in PlayerColors :
        RoomCall(RoomSettle(rooms[1], users, u, color))

NextAuth == AuthMark \/ AuthUnmark \/ AuthClear \/ AuthSettle

SpecAuth == InitAuth /\ [][NextAuth]_vars

AuthGame == rooms[1].game

\* A step that is a completed UnmarkCell or ClearCellMark on cell c of a phase game.
ClearsCell(c) ==
    /\ AuthGame.rule = "phase"
    /\ \/ rooms'[1].game = UnmarkCell(AuthGame, c[1], c[2]).g
       \/ \E color \in PlayerColors : rooms'[1].game = ClearCellMark(AuthGame, c[1], c[2], color).g

\* C21: under the phase rule, UnmarkCell or ClearCellMark on a cell leaves the row-mark
\* counters and the unlocked row of every color that held no claim on that cell unchanged.
C21_ClearTouchesHoldersOnly ==
    [][\A c \in AuthCells :
          ClearsCell(c)
            => \A k \in Colors :
                  ~Holds(AuthGame.board[c], k)
                     => /\ RowMarksOf(rooms'[1].game, k) = RowMarksOf(AuthGame, k)
                        /\ UnlockedRowOf(rooms'[1].game, k) = UnlockedRowOf(AuthGame, k)]_vars

\* Red's only mark of row 0 has been cleared (red still has the mark in row 1 it made
\* after unlocking it), while blue keeps its mark on that cell, its counter and its
\* unlocked row.
C21_Witness ==
    /\ AuthGame.rule = "phase"
    /\ AuthGame.redRowMarks[0] = 0
    /\ AuthGame.redRowMarks[1] = 1
    /\ AuthGame.board[<<0, 0>>].markedBy = "blue"
    /\ AuthGame.board[<<0, 1>>].markedBy = "none"
    /\ AuthGame.blueRowMarks[0] = 1
    /\ AuthGame.blueUnlockedRow = 1

(***************************************************************************)
(* Properties of leaving and closing (SpecSeq).                             *)
(***************************************************************************)
\* The place of a member in the order in which the members joined.
JoinRank(rm, u) == CHOOSE n \in 1..Len(rm.userOrder) : rm.userOrder[n] = u

\* Among a set of members, the one who joined earliest.
Earliest(rm, members) ==
    CHOOSE y \in members : \A z \in members : JoinRank(rm, y) <= JoinRank(rm, z)

\* C22: when the owner of a room is removed and other members remain, ownerId becomes the
\* remaining member who joined earliest and that member's role becomes referee; when a
\* member other than the owner is removed, ownerId is unchanged.
C22_OwnershipTransfer ==
    [][\A i \in RoomIds, u \in Users :
          (u \in rooms[i].users /\ u \notin rooms'[i].users /\ rooms'[i].users # {})
            => IF rooms[i].ownerID = u
               THEN /\ rooms'[i].ownerID = Earliest(rooms[i], rooms'[i].users)
                    /\ users'[rooms'[i].ownerID].role = "referee"
               ELSE rooms'[i].ownerID = rooms[i].ownerID]_vars

\* Room 1, created by user 1 and joined by 2 and then 3, after user 1 left: user 2 owns
\* it as referee and user 3 is still a member.
C22_Witness ==
    /\ rooms[1].users = {2, 3}
    /\ rooms[1].userOrder = <<2, 3>>
    /\ rooms[1].ownerID = 2
    /\ users[2].role = "referee"
    /\ users[1].roomID # 1

AsPlayer(u, color) == [users EXCEPT ![u] = [@ EXCEPT !.role = "player", !.color = color]]

\* C24: Room.MarkCell rejects every mark of a spectator and every mark of a player whose
\* submitted color is not the player's own; a referee's mark under the normal rule
\* overwrites the cell whoever holds it; under the blackout and phase rules a referee's
\* mark has the outcome the same mark by a player of that color would have, and under
\* the phase rule a successful one counts toward that color's row counter.
C24_MarkByRole ==
    \A u \in rooms[1].users, c \in AuthCells, color \in PlayerColors :
        LET res == RoomMarkCell(rooms[1], users, u, c[1], c[2], color)
            rejected == res.err # "ok" /\ res.rm = rooms[1] /\ res.us = users
        IN  /\ users[u].role = "spectator" => rejected
            /\ (users[u].role = "player" /\ color # users[u].color) => rejected
            /\ (users[u].role = "referee" /\ AuthGame.rule = "normal")
                  => /\ res.err = "ok"
                     /\ res.rm.game.board[c] = [markedBy |-> color, secondMark |-> "none", times |-> 0]
            /\ (users[u].role = "referee" /\ AuthGame.rule \in {"blackout", "phase"})
                  => LET same == RoomMarkCell(rooms[1], AsPlayer(u, color), u, c[1], c[2], color)
                     IN  /\ res.err = same.err
                         /\ res.rm = same.rm
                         /\ (AuthGame.rule = "phase" /\ res.err = "ok")
                               => RowMarksOf(res.rm.game, color)[c[1]]
                                     = RowMarksOf(AuthGame, color)[c[1]] + 1

\* A phase game in which red has used up its three marks of row 0: the referee's mark for
\* red on the free cell of that row is refused with RowLimitExceeded, and a mark by the
\* third member, a spectator, is refused as well.
C24_Witness ==
    /\ AuthGame.rule = "phase"
    /\ AuthGame.redRowMarks[0] = 3
    /\ users[1].role = "referee"
    /\ users[3].role = "spectator"
    /\ \E c \in AuthCells :
          /\ c[1] = 0
          /\ AuthGame.board[c].markedBy = "none"
          /\ RoomMarkCell(rooms[1], users, 1, c[1], c[2], "red").err = "RowLimitExceeded"
          /\ RoomMarkCell(rooms[1], users, 3, c[1], c[2], "red").err = "Spectator"

\* The state of a color the claims speak of: its cells, its row counters, its settled flag.
ColorState(g, k) ==
    [cells   |-> Claims(g, k),
     marks   |-> RowMarksOf(g, k),
     settled |-> IF k = "red" THEN g.redSettled ELSE g.blueSettled]

\* The results of the game requests a member can make with a color.
PlayerCalls(u, color) ==
    {RoomMarkCell(rooms[1], users, u, c[1], c[2], color) : c \in AuthCells}
        \cup {RoomClearCellMark(rooms[1], users, u, c[1], c[2], color) : c \in AuthCells}
        \cup {RoomSettle(rooms[1], users, u, color)}

\* C25: whatever color (red, blue or none) a request carries, a MarkCell, ClearCellMark
\* or Settle of a user with role player leaves the cells, the row counters and the
\* settled flag of every color other than that user's own unchanged.
C25_PlayerChangesOwnColorOnly ==
    \A u \in rooms[1].users, color \in PlayerColors :
        users[u].role = "player"
            => \A res \in PlayerCalls(u, color), k \in Colors \ {users[u].color} :
                  ColorState(res.rm.game, k) = ColorState(AuthGame, k)

(***************************************************************************)
(* Properties of SetUserRole (SpecRoles).                                   *)
(***************************************************************************)
UserRoles == {"spectator", "player", "referee"}

\* C26: SetUserRole changes a role only when the caller is the room's owner or the
\* target; and a permitted call that assigns role player with color red or blue to a
\* member fails with PlayerAlreadySet, changing nothing, when a different member already
\* holds that color.
C26_SetUserRoleGuards ==
    \A caller \in Users, target \in Users, role \in UserRoles, color \in PlayerColors :
        LET res == SetUserRole(rooms[1], users, caller, target, role, color)
        IN  /\ (res.err = "ok" \/ res.us # users \/ res.rm # rooms[1])
                  => (caller = rooms[1].ownerID \/ caller = target)
            /\ (/\ caller = rooms[1].ownerID \/ caller = target
                /\ target \in rooms[1].users
                /\ role = "player"
                /\ color \in Colors
                /\ \E m \in rooms[1].users \ {target} : users[m].color = color)
                  => res = RFail(rooms[1], users, "PlayerAlreadySet")

\* A set_role handler has ended with PlayerAlreadySet while the other member wears the
\* color it asked for.
C26_Witness ==
    \E c \in Racers :
        /\ conn[c].pc = "done"
        /\ conn[c].req.type = "set_role"
        /\ conn[c].err = "PlayerAlreadySet"
        /\ \E m \in rooms[1].users \ {conn[c].req.target} : users[m].color = conn[c].req.color

(***************************************************************************)
(* The owner's operations.  SpecOwner: user 1 has created room 1 and user 2 *)
(* has joined; members come and go, and every user calls SetPassword,       *)
(* SetGameRule, StartGame, ResetGame, SetCellText, SetAllCellTexts and      *)
(* MarkCell on the room.                                                    *)
(***************************************************************************)
OwnerRules == {"normal", "phase"}

\* Cells of set_cell_text payloads: two of the board, one outside it.
TextCells == {<<0, 0>>, <<4, 4>>, <<LastRow + 1, 0>>}

\* Texts of set_cell_text payloads with a Texts list: 25 texts, and a list too short.
TextLists == {[i \in 1..BoardCells |-> "b"], <<"b">>}

InitOwner ==
    /\ LET a == AddUser(NewRoom(1, "", 1), [u \in Users |-> NewUser], 1)
           b == AddUser(a.rm, a.us, 2)
       IN  /\ rooms = [i \in RoomIds |-> IF i = 1 THEN b.rm ELSE NoRoomObject]
           /\ users = b.us
    /\ registry = {1}
    /\ conn = [u \in Users |-> FreshConn("idle")]
    /\ sent = [u \in Users |-> {}]
    /\ hist = [u \in Users |-> {}]

OwnerJoin ==
    \E u \in Users \ rooms[1].users : RoomCall(AddUser(rooms[1], users, u))

\* A member leaves while others stay (the last member's leave ends the room).
OwnerLeave ==
    \E u \in rooms[1].users :
        /\ rooms[1].users # {u}
        /\ RoomCall(RemoveUser(rooms[1], users, u))

OwnerSetPassword ==
    \E u \in Users, pw \in Passwords : RoomCall(SetPassword(rooms[1], users, u, pw))

\* Configurations of set_rule payloads.
OwnerConfigs == {DefaultPhaseConfig, BingoConfig}

OwnerSetGameRule ==
    \E u \in Users, rule \in OwnerRules, config \in OwnerConfigs :
        RoomCall(SetGameRule(rooms[1], users, u, rule, config))

OwnerStartGame ==
    \E u \in Users : RoomCall(StartGame(rooms[1], users, u))

OwnerResetGame ==
    \E u \in Users : RoomCall(ResetGame(rooms[1], users, u))

OwnerSetCellText ==
    \E u \in Users, c \in TextCells :
        RoomCall(RoomSetCellText(rooms[1], users, u, c[1], c[2], "a"))

OwnerSetAllCellTexts ==
    \E u \in Users, texts \in TextLists :
        RoomCall(RoomSetAllCellTexts(rooms[1], users, u, texts))

OwnerMark ==
    \E u \in Users : RoomCall(RoomMarkCell(rooms[1], users, u, 0, 0, "red"))

NextOwner ==
    \/ OwnerJoin \/ OwnerLeave
    \/ OwnerSetPassword \/ OwnerSetGameRule \/ OwnerStartGame \/ OwnerResetGame
    \/ OwnerSetCellText \/ OwnerSetAllCellTexts \/ OwnerMark

SpecOwner == InitOwner /\ [][NextOwner]_vars

\* The results of the six operations called by u, over the inputs of SpecOwner.
OwnerCalls(u) ==
    {SetPassword(rooms[1], users, u, pw) : pw \in Passwords}
    \cup {SetGameRule(rooms[1], users, u, rule, DefaultPhaseConfig) : rule \in OwnerRules}
    \cup {StartGame(rooms[1], users, u), ResetGame(rooms[1], users, u)}

TextCalls(u) ==
    {RoomSetCellText(rooms[1], users, u, c[1], c[2], "a") : c \in TextCells}
    \cup {RoomSetAllCellTexts(rooms[1], users, u, texts) : texts \in TextLists}

\* C27: SetPassword, SetGameRule, StartGame, ResetGame, SetCellText and SetAllCellTexts
\* called by anyone but the room's current owner fail with NotOwner and change nothing;
\* SetCellText and SetAllCellTexts also change nothing unless the game's status is
\* waiting.
C27_OwnerOnly ==
    \A u \in Users :
        /\ u # rooms[1].ownerID =>
              \A res \in OwnerCalls(u) \cup TextCalls(u) :
                  res = RFail(rooms[1], users, "NotOwner")
        /\ rooms[1].game.status # "waiting" =>
              \A res \in TextCalls(u) :
                  res.err # "ok" /\ res.rm = rooms[1] /\ res.us = users

\* Ownership has passed to user 2, who set a password and a text and started the game,
\* with another member in the room.
C27_Witness ==
    /\ rooms[1].ownerID = 2
    /\ rooms[1].users # {2}
    /\ rooms[1].password = "pw"
    /\ rooms[1].game.status = "playing"
    /\ rooms[1].game.texts[<<0, 0>>] = "a"
    /\ rooms[1].game.texts[<<4, 4>>] = "b"

(***************************************************************************)
(* The locks.  SpecLocks: the handlers at the grain of Manager.mu and       *)
(* Room.mu (both sync.RWMutex).  A handler's position tells which locks it  *)
(* holds, has asked for, or is blocked on.  RLock blocks once a writer has  *)
(* announced itself (Lock called, readers still draining, or the lock held  *)
(* for writing); Lock waits for the writers before it and then for the      *)
(* readers that were in; Unlock lets every blocked reader in.  Room 1 is    *)
(* running a normal game with user 1; users 2 and 3 are in no room and room *)
(* 2 is not created yet.                                                    *)
(***************************************************************************)
\* Holding Manager.mu for reading: inside GetRoom, and inside ListRooms from RLock on.
MgrReaders ==
    {c \in Users : conn[c].pc \in {"get_held", "ls_loop", "ls_r_want", "ls_r_blocked", "ls_r_held"}}

\* Manager.mu announced for writing or held for writing (CreateRoom, DeleteRoom).
MgrWriters == {c \in Users : conn[c].pc \in {"mw_pending", "mw_held"}}

\* Holding room i's mu for reading: ListRooms' loop body, ValidatePassword, GetState.
RoomReaders(i) ==
    {c \in Users : conn[c].r = i /\ conn[c].pc \in {"ls_r_held", "vp_held", "st_held"}}

\* A variant in which the leaving handler's DeleteRoom runs inside RemoveUser, with the
\* room's lock still held.
RoomWritersThroughDelete(i) ==
    {c \in Users : /\ conn[c].r = i
                   /\ \/ conn[c].pc \in {"op_pending", "op_held"}
                      \/ /\ conn[c].req.type = "leave_room"
                         /\ conn[c].pc \in {"mw_want", "mw_pending", "mw_held"}}

\* Room i's mu announced for writing or held for writing (the Room methods that Lock).
RoomWriters(i) ==
    {c \in Users : conn[c].r = i /\ conn[c].pc \in {"op_pending", "op_held"}}

\* Where a blocked RLock resumes.
Unblocked(pc) ==
    CASE pc = "get_blocked"  -> "get_held"
      [] pc = "ls_m_blocked" -> "ls_loop"
      [] pc = "ls_r_blocked" -> "ls_r_held"
      [] pc = "vp_blocked"   -> "vp_held"
      [] pc = "st_blocked"   -> "st_held"
      [] OTHER               -> pc

\* RWMutex.Unlock by c: the readers blocked on that lock are let in.
Wake(c, mine, blocked) ==
    [d \in Users |->
        IF d = c THEN mine
        ELSE IF blocked[d] THEN [conn[d] EXCEPT !.pc = Unblocked(@)]
        ELSE conn[d]]

RoomInfo(rm) ==
    [id |-> rm.id, hasPassword |-> rm.password # "", playerCount |-> Cardinality(rm.users),
     owner |-> IF rm.ownerID \in rm.users THEN rm.ownerID ELSE NoUser]

Listed(c) == {info.id : info \in conn[c].infos}

InitLocks ==
    /\ LET a == StartedRoom("normal", DefaultPhaseConfig)
       IN  /\ rooms = [i \in RoomIds |-> IF i = 1 THEN a.rm ELSE NoRoomObject]
           /\ users = a.us
    /\ registry = {1}
    /\ conn = [u \in Users |-> FreshConn("idle")]
    /\ sent = [u \in Users |-> {}]
    /\ hist = [u \in Users |-> {}]

\* The create_room handlers that have not created their room yet (room ids are bounded).
Creating ==
    {c \in Users : conn[c].req.type = "create_room"
                     /\ conn[c].pc \in {"mw_want", "mw_pending", "mw_held"}}

\* The requests of SpecLocks: user 1 marks cells in its room, user 2 creates, leaves and
\* joins rooms, and every user lists the rooms.
Markers == {1}
Movers == {2}
Listers == {1, 2, 3}

LockRequests(c) ==
    (IF c \in Listers THEN {[NoReq EXCEPT !.type = "list_rooms"]} ELSE {})
    \cup (IF c \in Markers /\ users[c].roomID # NoRoom
          THEN {[NoReq EXCEPT !.type = "mark_cell", !.color = "red"]} ELSE {})
    \cup (IF c \in Movers /\ users[c].roomID # NoRoom
          THEN {[NoReq EXCEPT !.type = "leave_room"]} ELSE {})
    \cup (IF c \in Movers /\ users[c].roomID = NoRoom
          THEN {[NoReq EXCEPT !.type = "join_room", !.room = i] : i \in RoomIds}
               \cup (IF Cardinality(Created) + Cardinality(Creating) < MaxRooms
                     THEN {[NoReq EXCEPT !.type = "create_room"]} ELSE {})
          ELSE {})

\* OnMessage: the handler of the request starts.
LkStart(c) ==
    /\ conn[c].pc = "idle"
    /\ \E req \in LockRequests(c) :
          conn' = [conn EXCEPT ![c] =
                      [FreshConn(CASE req.type = "list_rooms"  -> "ls_m_want"
                                   [] req.type = "create_room" -> "mw_want"
                                   [] OTHER                    -> "get_want")
                       EXCEPT !.req = req]]
    /\ UNCHANGED <<rooms, registry, users, sent, hist>>

\* m.mu.RLock() in GetRoom and in ListRooms
LkRLockMgr(c) ==
    /\ conn[c].pc \in {"get_want", "ls_m_want"}
    /\ conn' = [conn EXCEPT ![c].pc =
                   IF conn[c].pc = "get_want"
                   THEN (IF MgrWriters # {} THEN "get_blocked" ELSE "get_held")
                   ELSE (IF MgrWriters # {} THEN "ls_m_blocked" ELSE "ls_loop")]
    /\ UNCHANGED <<rooms, registry, users, sent, hist>>

\* GetRoom's lookup and m.mu.RUnlock(); the handler goes on to the room it found.
LkGetRoom(c) ==
    /\ conn[c].pc = "get_held"
    /\ LET id == GetRoom(IF conn[c].req.type = "join_room" THEN conn[c].req.room
                         ELSE users[c].roomID)
       IN  conn' = [conn EXCEPT ![c] =
                       IF id = NoRoom THEN FreshConn("idle")
                       ELSE [@ EXCEPT !.r = id,
                                      !.pc = IF conn[c].req.type = "join_room"
                                             THEN "vp_want" ELSE "op_want"]]
    /\ UNCHANGED <<rooms, registry, users, sent, hist>>

\* ListRooms: the range loop reaches a room, in any order.
LkListPick(c) ==
    /\ conn[c].pc = "ls_loop"
    /\ \E i \in registry \ Listed(c) :
          conn' = [conn EXCEPT ![c].pc = "ls_r_want", ![c].r = i]
    /\ UNCHANGED <<rooms, registry, users, sent, hist>>

\* r.mu.RLock() in ListRooms, ValidatePassword and GetState
LkRLockRoom(c) ==
    /\ conn[c].pc \in {"ls_r_want", "vp_want", "st_want"}
    /\ LET w == RoomWriters(conn[c].r) # {}
       IN  conn' = [conn EXCEPT ![c].pc =
                       CASE conn[c].pc = "ls_r_want" -> (IF w THEN "ls_r_blocked" ELSE "ls_r_held")
                         [] conn[c].pc = "vp_want"   -> (IF w THEN "vp_blocked" ELSE "vp_held")
                         [] conn[c].pc = "st_want"   -> (IF w THEN "st_blocked" ELSE "st_held")]
    /\ UNCHANGED <<rooms, registry, users, sent, hist>>

\* ListRooms: the RoomInfo is appended and r.mu.RUnlock() called.
LkListInfo(c) ==
    /\ conn[c].pc = "ls_r_held"
    /\ conn' = [conn EXCEPT ![c].pc = "ls_loop",
                            ![c].infos = @ \cup {RoomInfo(rooms[conn[c].r])}]
    /\ UNCHANGED <<rooms, registry, users, sent, hist>>

\* ListRooms returns (m.mu.RUnlock()); the handler ends (the messages are left out).
LkListDone(c) ==
    /\ conn[c].pc = "ls_loop"
    /\ registry \ Listed(c) = {}
    /\ conn' = [conn EXCEPT ![c] = FreshConn("idle")]
    /\ UNCHANGED <<rooms, registry, users, sent, hist>>

\* ValidatePassword returns (r.mu.RUnlock()).
LkValidate(c) ==
    /\ conn[c].pc = "vp_held"
    /\ conn' = [conn EXCEPT ![c] =
                   IF ValidatePassword(rooms[conn[c].r], conn[c].req.password)
                   THEN [@ EXCEPT !.pc = "op_want"] ELSE FreshConn("idle")]
    /\ UNCHANGED <<rooms, registry, users, sent, hist>>

\* broadcastRoomState: GetState returns (r.mu.RUnlock()); the handler ends.
LkGetState(c) ==
    /\ conn[c].pc = "st_held"
    /\ conn' = [conn EXCEPT ![c] = FreshConn("idle")]
    /\ UNCHANGED <<rooms, registry, users, sent, hist>>

\* r.mu.Lock(): past the writers before it, the caller announces itself and waits for
\* the readers that are in.
LkLockRoom(c) ==
    /\ conn[c].pc = "op_want"
    /\ RoomWriters(conn[c].r) = {}
    /\ conn' = [conn EXCEPT ![c].pc =
                   IF RoomReaders(conn[c].r) = {} THEN "op_held" ELSE "op_pending"]
    /\ UNCHANGED <<rooms, registry, users, sent, hist>>

\* r.mu.Lock() returns when the last reader has left.
LkLockedRoom(c) ==
    /\ conn[c].pc = "op_pending"
    /\ RoomReaders(conn[c].r) = {}
    /\ conn' = [conn EXCEPT ![c].pc = "op_held"]
    /\ UNCHANGED <<rooms, registry, users, sent, hist>>

\* The Room method runs and returns (r.mu.Unlock()): MarkCell, RemoveUser or AddUser.
LkUnlockRoom(c) ==
    /\ conn[c].pc = "op_held"
    /\ LET id  == conn[c].r
           res == CASE conn[c].req.type = "mark_cell" ->
                         RoomMarkCell(rooms[id], users, c, 0, 0, conn[c].req.color)
                    [] conn[c].req.type = "leave_room" -> RemoveUser(rooms[id], users, c)
                    [] OTHER -> AddUser(rooms[id], users, c)
           next == IF res.err # "ok" THEN FreshConn("idle")
                   ELSE IF conn[c].req.type = "leave_room" /\ res.rm.users = {}
                   THEN [conn[c] EXCEPT !.pc = "mw_want"]
                   ELSE [conn[c] EXCEPT !.pc = "st_want"]
       IN  /\ Apply(id, res)
           /\ conn' = Wake(c, next,
                           [d \in Users |-> conn[d].r = id
                               /\ conn[d].pc \in {"ls_r_blocked", "vp_blocked", "st_blocked"}])
    /\ UNCHANGED <<registry, sent, hist>>

\* m.mu.Lock() in CreateRoom and DeleteRoom
LkLockMgr(c) ==
    /\ conn[c].pc = "mw_want"
    /\ MgrWriters = {}
    /\ conn' = [conn EXCEPT ![c].pc = IF MgrReaders = {} THEN "mw_held" ELSE "mw_pending"]
    /\ UNCHANGED <<rooms, registry, users, sent, hist>>

LkLockedMgr(c) ==
    /\ conn[c].pc = "mw_pending"
    /\ MgrReaders = {}
    /\ conn' = [conn EXCEPT ![c].pc = "mw_held"]
    /\ UNCHANGED <<rooms, registry, users, sent, hist>>

\* CreateRoom or DeleteRoom runs and returns (m.mu.Unlock()).
LkUnlockMgr(c) ==
    /\ conn[c].pc = "mw_held"
    /\ LET blocked == [d \in Users |-> conn[d].pc \in {"get_blocked", "ls_m_blocked"}]
       IN  IF conn[c].req.type = "create_room"
           THEN LET id == CHOOSE i \in RoomIds \ Created : \A j \in RoomIds \ Created : i <= j
                IN  /\ rooms' = [rooms EXCEPT ![id] = NewRoom(id, "", c)]
                    /\ registry' = registry \cup {id}
                    /\ conn' = Wake(c, [conn[c] EXCEPT !.pc = "op_want", !.r = id], blocked)
           ELSE /\ registry' = registry \ {conn[c].r}
                /\ conn' = Wake(c, FreshConn("idle"), blocked)
                /\ UNCHANGED rooms
    /\ UNCHANGED <<users, sent, hist>>

\* A step of the handler running on connection c.
LkStep(c) ==
    \/ LkRLockMgr(c) \/ LkGetRoom(c) \/ LkListPick(c) \/ LkRLockRoom(c) \/ LkListInfo(c)
    \/ LkListDone(c) \/ LkValidate(c) \/ LkGetState(c) \/ LkLockRoom(c) \/ LkLockedRoom(c)
    \/ LkUnlockRoom(c) \/ LkLockMgr(c) \/ LkLockedMgr(c) \/ LkUnlockMgr(c)

NextLocks == \E c \in Users : LkStart(c) \/ LkStep(c)

SpecLocks == InitLocks /\ [][NextLocks]_vars

\* The scheduler runs every goroutine that can run; sync.Mutex hands the lock to a caller
\* that keeps waiting (starvation mode), so a Lock that can succeed again and again does.
SpecLocksFair ==
    /\ SpecLocks
    /\ \A c \in Users : WF_vars(LkStep(c))
    /\ \A c \in Users : SF_vars(LkLockRoom(c) \/ LkLockMgr(c))

InHandler(c) == conn[c].pc # "idle"

\* No handler is running and so no lock is held or asked for, or some handler can step.
NoDeadlock == (\E c \in Users : InHandler(c)) => \E c \in Users : ENABLED LkStep(c)

\* C28: under every interleaving of list_rooms, mark_cell, join_room, leave_room and
\* create_room handlers, no reachable state is a deadlock, and every handler that has
\* started ends, holding and awaiting no lock.
C28_EveryOperationCompletes ==
    /\ []NoDeadlock
    /\ \A c \in Users : InHandler(c) ~> ~InHandler(c)

\* ListRooms holds the registry's lock and is blocked on room 1's lock, which a Room
\* method holds for writing, while DeleteRoom waits for the registry's lock.
C28_Witness ==
    \E c, d, e \in Users :
        /\ conn[c].pc = "ls_r_blocked" /\ conn[c].r = 1
        /\ conn[d].pc = "op_held" /\ conn[d].r = 1
        /\ conn[e].pc = "mw_pending" /\ conn[e].req.type = "leave_room"

(***************************************************************************)
(* The life of an empty room (SpecSeq).                                     *)
(***************************************************************************)
\* C29: a room is not deleted at the moment its last user leaves or disconnects: no step
\* of a handler takes a room without members out of the registry (only the sweep of the
\* idle TTL would, and none with TTL 0).
C29_EmptyRoomStaysRegistered ==
    [][\A i \in registry : rooms[i].users = {} => i \in registry']_vars

(***************************************************************************)
(* The row counters of the phase rule (SpecAuth).                           *)
(***************************************************************************)
\* The cells of a row on which color k has a claim.
RowClaims(g, k, row) == {c \in Cells : c[1] = row /\ Holds(g.board[c], k)}

\* C30: under the phase rule, after any sequence of MarkCell, UnmarkCell and
\* ClearCellMark requests made through the room with color red, blue or none, the row
\* counter of each color and row equals the number of cells of that row whose markedBy
\* or secondMark is that color.
C30_RowMarksCountClaims ==
    AuthGame.rule = "phase"
        => \A k \in Colors, row \in Rows :
              RowMarksOf(AuthGame, k)[row] = Cardinality(RowClaims(AuthGame, k, row))

(***************************************************************************)
(* The engine from start to finish.  SpecEngine: a started game one step    *)
(* from its end (normal: red holds four cells of row 0; blackout: both      *)
(* colors on every cell but that of EngineCells; phase: both colors on      *)
(* columns 3 and 4), and every operation of Game on the cell of             *)
(* EngineCells.                                                             *)
(***************************************************************************)
EngineCells == {<<0, 4>>}

EngineGames ==
    {[rule |-> "normal",
      marks |-> <<[c \in {<<0, 0>>, <<0, 1>>, <<0, 2>>, <<0, 3>>} |-> "red"]>>],
     [rule |-> "blackout",
      marks |-> <<[c \in Cells \ EngineCells |-> "red"], [c \in Cells \ EngineCells |-> "blue"]>>],
     [rule |-> "phase", marks |-> TwoColumns]}

InitEngine ==
    /\ \E start \in EngineGames :
          LET a == StartedRoom(start.rule, DefaultPhaseConfig)
          IN  /\ rooms = [i \in RoomIds |->
                            IF i = 1 THEN [a.rm EXCEPT !.game = FilledRounds(@, start.marks)]
                            ELSE NoRoomObject]
              /\ users = a.us
    /\ registry = {1}
    /\ conn = [u \in Users |-> FreshConn("idle")]
    /\ sent = [u \in Users |-> {}]
    /\ hist = [u \in Users |-> {}]

EngineStart == EngineCall(Start(rooms[1].game))

EngineMark ==
    \E c \in EngineCells, player \in Colors :
        EngineCall(MarkCell(rooms[1].game, c[1], c[2], player))

EngineForce ==
    \E c \in EngineCells, player \in Colors :
        EngineCall(MarkCellForce(rooms[1].game, c[1], c[2], player))

EngineUnmark ==
    \E c \in EngineCells : EngineCall(UnmarkCell(rooms[1].game, c[1], c[2]))

EngineClear ==
    \E c \in EngineCells, player \in Colors :
        EngineCall(ClearCellMark(rooms[1].game, c[1], c[2], player))

EngineSettle ==
    \E player \in Colors : EngineCall(Settle(rooms[1].game, player))

EngineReset == EngineCall(Ok(Reset(rooms[1].game)))

NextEngine ==
    \/ EngineStart \/ EngineMark \/ EngineForce \/ EngineUnmark
    \/ EngineClear \/ EngineSettle \/ EngineReset

SpecEngine == InitEngine /\ [][NextEngine]_vars

EngineGame == rooms[1].game

\* C31: after any sequence of Start, marks, force marks, unmarks, clears, Settle and
\* Reset, the game carries a Winner record only when its status is finished.
C31_WinnerOnlyWhenFinished ==
    EngineGame.winner # NilWinner => EngineGame.status = "finished"

(***************************************************************************)
(* Users and the registry under interleaved handlers (SpecLobby).           *)
(***************************************************************************)
\* C32: under any interleaving of create, join, leave and close requests from different
\* connections, once the handlers have returned every user whose roomID is set is a
\* member of a room that is still in the registry.
C32_UsersInRegisteredRooms ==
    Quiet => \A u \in Users :
                users[u].roomID # NoRoom
                   => /\ users[u].roomID \in registry
                      /\ u \in rooms[users[u].roomID].users

(***************************************************************************)
(* The end of a phase game (SpecEngine).                                    *)
(***************************************************************************)
\* MarkCell, UnmarkCell and ClearCellMark on any cell with any color leave status and
\* winner of a phase game as they are.
MarksKeepPhaseStatus ==
    EngineGame.rule = "phase" =>
        \A c \in Cells, player \in PlayerColors :
            \A res \in {MarkCell(EngineGame, c[1], c[2], player),
                        UnmarkCell(EngineGame, c[1], c[2]),
                        ClearCellMark(EngineGame, c[1], c[2], player)} :
                res.g.status = EngineGame.status /\ res.g.winner = EngineGame.winner

\* A step that takes a phase game from playing to finished.
PhaseGameEnds ==
    /\ EngineGame.rule = "phase"
    /\ EngineGame.status = "playing"
    /\ rooms'[1].game.status = "finished"

\* C33: under the phase rule, status goes from playing to finished only in a Settle call
\* after which both redSettled and blueSettled are true, and no MarkCell, UnmarkCell or
\* ClearCellMark changes status or winner of a phase game.
C33_PhaseEndsBySettleOnly ==
    /\ []MarksKeepPhaseStatus
    /\ [][PhaseGameEnds =>
            /\ rooms'[1].game.redSettled /\ rooms'[1].game.blueSettled
            /\ \E player \in Colors : rooms'[1].game = Settle(EngineGame, player).g]_vars

\* Both colors have settled a phase game and it has finished with reason phase.
C33_Witness ==
    /\ EngineGame.rule = "phase"
    /\ EngineGame.status = "finished"
    /\ EngineGame.redSettled /\ EngineGame.blueSettled
    /\ EngineGame.winner.reason = "phase"

(***************************************************************************)
(* UnmarkCell under the normal and blackout rules (SpecEngine).             *)
(***************************************************************************)
\* The win condition of a board: normal, a line of one color or no cell left; blackout,
\* a color with a claim on every cell.
StatedWin(g) ==
    IF g.rule = "normal"
    THEN \/ \E k \in Colors, l \in StatedLines : l \subseteq HeldBy(g, k)
         \/ \A c \in Cells : g.board[c].markedBy # "none"
    ELSE \E k \in Colors : Claims(g, k) = Cells

\* C34: under the normal and blackout rules, after an UnmarkCell the status is finished
\* exactly when the win condition holds on the resulting board; when it does not hold the
\* game is playing with no winner, also when it had finished.
C34_UnmarkRederivesOutcome ==
    (EngineGame.rule \in {"normal", "blackout"} /\ EngineGame.status # "waiting") =>
        \A c \in Cells :
            LET res == UnmarkCell(EngineGame, c[1], c[2])
            IN  /\ res.err = "ok"
                /\ res.g.status = "finished" <=> StatedWin(res.g)
                /\ ~StatedWin(res.g) => res.g.status = "playing" /\ res.g.winner = NilWinner

\* A normal game finished by red's row 0, which UnmarkCell on (0,4) takes back to playing
\* and UnmarkCell on (1,1) leaves finished.
C34_Witness ==
    /\ EngineGame.rule = "normal"
    /\ EngineGame.status = "finished"
    /\ EngineGame.winner.reason = "bingo"
    /\ UnmarkCell(EngineGame, 0, 4).g.status = "playing"
    /\ UnmarkCell(EngineGame, 1, 1).g.status = "finished"

(***************************************************************************)
(* A finished phase game (SpecAuth).                                        *)
(***************************************************************************)
\* C35: while a phase game is finished, the redScore and blueScore of its Winner record
\* equal the phase score of the current board, bingo achiever and first settler.
C35_FinishedScoresMatchBoard ==
    (EngineGame.rule = "phase" /\ EngineGame.status = "finished") =>
        /\ EngineGame.winner.redScore = StatedScore(EngineGame, "red")
        /\ EngineGame.winner.blueScore = StatedScore(EngineGame, "blue")

(***************************************************************************)
(* Roles and colors of the members of a room (SpecRoles).                  *)
(***************************************************************************)
\* C36: a member of a registered room whose color is red or blue has the role player,
\* so a referee or a spectator always has the color none, also a member made referee by
\* the ownership transfer of RemoveUser.
C36_ColoredMembersArePlayers ==
    \A i \in registry : \A u \in rooms[i].users :
        users[u].color \in Colors => users[u].role = "player"

(***************************************************************************)
(* The times field of a cell (SpecPhase, SpecBlackout).                    *)
(***************************************************************************)
\* C37: under the blackout and phase rules every cell's times equals the number of its
\* claims: one for markedBy not none plus one for secondMark not none.
C37_TimesCountsClaims ==
    EngineGame.rule \in {"blackout", "phase"} =>
        \A c \in Cells :
            EngineGame.board[c].times =
                (IF EngineGame.board[c].markedBy # "none" THEN 1 ELSE 0)
                + (IF EngineGame.board[c].secondMark # "none" THEN 1 ELSE 0)

(***************************************************************************)
(* The force path of Room.MarkCell (SpecAuth).                             *)
(***************************************************************************)
\* C38: a mark_cell request makes the room take MarkCellForce only for a referee under
\* the normal rule: whenever the outcome of Room.MarkCell is the outcome of MarkCellForce
\* and not that of MarkCell, the caller is a referee and the rule is normal; on a blackout
\* or phase game the request is either refused with the room unchanged or has exactly the
\* outcome of Game.MarkCell.
C38_ForceOnlyRefereeNormal ==
    \A u \in rooms[1].users, c \in AuthCells, color \in PlayerColors :
        LET res    == RoomMarkCell(rooms[1], users, u, c[1], c[2], color)
            plain  == MarkCell(AuthGame, c[1], c[2], color)
            forced == MarkCellForce(AuthGame, c[1], c[2], color)
        IN  /\ (forced # plain /\ res.rm.game = forced.g /\ res.err = forced.err)
                  => (users[u].role = "referee" /\ AuthGame.rule = "normal")
            /\ AuthGame.rule \in {"blackout", "phase"}
                  => \/ res.err \notin {"ok", plain.err} /\ res.rm = rooms[1]
                     \/ res.rm.game = plain.g /\ res.err = plain.err

\* A blackout game with a cell held by blue alone: the referee's mark for red makes red
\* the second claimant, where MarkCellForce would have replaced blue.
C38_Witness ==
    /\ AuthGame.rule = "blackout"
    /\ users[1].role = "referee"
    /\ \E c \in AuthCells :
          /\ AuthGame.board[c] = [markedBy |-> "blue", secondMark |-> "none", times |-> 1]
          /\ RoomMarkCell(rooms[1], users, 1, c[1], c[2], "red").rm.game.board[c]
                = [markedBy |-> "blue", secondMark |-> "red", times |-> 2]
          /\ MarkCellForce(AuthGame, c[1], c[2], "red").g.board[c].markedBy = "red"

(***************************************************************************)
(* Changing the rule (SpecOwner).                                          *)
(***************************************************************************)
\* The outcome of SetGameRule in the current state is as stated for a game in progress
\* and for an accepted call.
SetGameRuleAsStated ==
    \A u \in Users, rule \in OwnerRules, config \in OwnerConfigs :
        LET res == SetGameRule(rooms[1], users, u, rule, config)
            new == res.rm.game
        IN  /\ EngineGame.status = "playing"
                  => /\ res.err # "ok" /\ res.rm = rooms[1] /\ res.us = users
                     /\ u = rooms[1].ownerID => res.err = "GameInProgress"
            /\ res.err = "ok"
                  => /\ new.rule = rule /\ new.phaseConfig = config
                     /\ new.status = "waiting"
                     /\ \A c \in Cells :
                           /\ new.board[c].markedBy = "none" /\ new.board[c].secondMark = "none"
                           /\ new.board[c].times = 0 /\ new.texts[c] = ""
                     /\ \A r \in Rows : new.redRowMarks[r] = 0 /\ new.blueRowMarks[r] = 0
                     /\ new.redUnlockedRow = 0 /\ new.blueUnlockedRow = 0
                     /\ new.bingoAchiever = "none" /\ new.bingoLine = NoBingoLine
                     /\ ~new.redSettled /\ ~new.blueSettled /\ new.firstSettler = "none"
                     /\ new.winner = NilWinner

\* C39: no step taken while the game is playing changes its rule or its phaseConfig:
\* SetGameRule on a playing game fails, with GameInProgress for the owner, and changes
\* nothing; an accepted SetGameRule installs a game in waiting with the given rule and
\* configuration, an empty board, zeroed counters and unlocked rows, no bingo, no settled
\* flags and no winner.
C39_RuleFixedWhilePlaying ==
    /\ []SetGameRuleAsStated
    /\ [][EngineGame.status = "playing"
             => /\ rooms'[1].game.rule = EngineGame.rule
                /\ rooms'[1].game.phaseConfig = EngineGame.phaseConfig]_vars

\* A playing phase game under the second configuration with red's mark on (0,0): the
\* owner's SetGameRule to normal is refused with GameInProgress.
C39_Witness ==
    /\ EngineGame.status = "playing"
    /\ EngineGame.rule = "phase"
    /\ EngineGame.phaseConfig = BingoConfig
    /\ EngineGame.board[<<0, 0>>].markedBy = "red"
    /\ rooms[1].ownerID \in rooms[1].users
    /\ SetGameRule(rooms[1], users, rooms[1].ownerID, "normal", DefaultPhaseConfig).err
          = "GameInProgress"

(***************************************************************************)
(* Spectators (SpecAuth).                                                  *)
(***************************************************************************)
\* The results of the four game requests of member u, over the cells and colors of
\* SpecAuth.
GameCalls(u) ==
    {RoomMarkCell(rooms[1], users, u, c[1], c[2], color) : c \in AuthCells, color \in PlayerColors}
    \cup {RoomUnmarkCell(rooms[1], users, u, c[1], c[2]) : c \in AuthCells}
    \cup {RoomClearCellMark(rooms[1], users, u, c[1], c[2], color) :
              c \in AuthCells, color \in PlayerColors}
    \cup {RoomSettle(rooms[1], users, u, color) : color \in PlayerColors}

\* C40: every MarkCell, UnmarkCell, ClearCellMark and Settle a spectator submits is
\* rejected and leaves the game, the room and the users unchanged; UnmarkCell succeeds
\* only when the caller is a referee.
C40_SpectatorChangesNothing ==
    \A u \in Users :
        /\ (u \in rooms[1].users /\ users[u].role = "spectator")
              => \A res \in GameCalls(u) :
                    res.err # "ok" /\ res.rm = rooms[1] /\ res.us = users
        /\ \A c \in AuthCells :
              LET res == RoomUnmarkCell(rooms[1], users, u, c[1], c[2])
              IN  /\ res.err = "ok" => users[u].role = "referee"
                  /\ users[u].role # "referee" => res.rm = rooms[1]

\* A playing game with red's mark on a cell and a spectator in the room: the referee's
\* UnmarkCell on that cell removes the mark, the red player's and the spectator's are
\* refused, and so is the spectator's ClearCellMark of red.
C40_Witness ==
    /\ AuthGame.status = "playing"
    /\ users[1].role = "referee" /\ users[2].role = "player" /\ users[3].role = "spectator"
    /\ \E c \in AuthCells :
          /\ AuthGame.board[c].markedBy = "red"
          /\ RoomUnmarkCell(rooms[1], users, 1, c[1], c[2]).err = "ok"
          /\ RoomUnmarkCell(rooms[1], users, 1, c[1], c[2]).rm.game.board[c].markedBy = "none"
          /\ RoomUnmarkCell(rooms[1], users, 2, c[1], c[2]).err = "NotReferee"
          /\ RoomUnmarkCell(rooms[1], users, 3, c[1], c[2]).err = "NotReferee"
          /\ RoomClearCellMark(rooms[1], users, 3, c[1], c[2], "red").err = "Spectator"

====
